---- MODULE Spec2Model ----
(***************************************************************************)
(* Resilience layer of LabDAMD/Roteiro3: CircuitBreaker and withRetry      *)
(* (shared/middleware/error-handling.js) and LoadBalancer                  *)
(* (shared/utils/load-balancer.js).                                        *)
(***************************************************************************)
EXTENDS Integers, Sequences, FiniteSets, TLC

(* ------------------------------ bounds --------------------------------- *)
MaxCallers == 2
MaxCalls == 4
MaxTicks == 2
MaxThreshold == 2
MaxResetTimeout == 2
MaxAttempts == 3
MaxRuns == 2
MaxPicks == 7
MaxClientCalls == 2
MaxConns == 2
MaxChatOps == 4
MaxLimit == 1

(* --------------------------- program constants ------------------------- *)
INVALID_ARGUMENT == 3
DEADLINE_EXCEEDED == 4
RESOURCE_EXHAUSTED == 8
UNAVAILABLE == 14
PERMISSION_DENIED == 7
UNAUTHENTICATED == 16
DefaultMaxRetries == 3
DefaultLimit == 50
\* error.code of a plain Error, which has no code property
NoCode == 0 - 1
DefaultFailureThreshold == 5
DefaultResetTimeout == 60000
DefaultBaseDelay == 1000

VARIABLES
  \* CircuitBreaker fields
  state, failures, nextAttempt, failureThreshold, resetTimeout,
  \* Date.now()
  now,
  \* the execute() calls: one record per concurrent caller
  calls,
  \* outcomes of the operations run through the breaker, in settle order
  settled,
  \* number of execute() calls made, number of clock steps taken
  started, ticks,
  \* the withRetry() call and the number of withRetry() calls made
  retry, runs,
  \* LoadBalancer fields; healthyEndpoints is a Set, kept in insertion order
  endpoints, strategy, currentIndex, healthyEndpoints, lastHealthCheck,
  \* endpoints whose checkHealth() is waiting for waitForReady
  probing,
  \* number of getEndpoint() calls, what the latest one returned or threw,
  \* and whether an endpoint was ever deleted from healthyEndpoints
  picks, lastPick, evicted,
  \* whether healthyEndpoints changed since the latest getEndpoint() call, and
  \* the argument of markUnhealthy() when it is the latest LoadBalancer call
  changedSincePick, lastMarked,
  \* the LoadBalancedGrpcClient, its call() and the number of call()s made
  client, clientCalls,
  \* ChatService fields (Maps are functions on their keys, Sets are kept in
  \* insertion order)
  rooms, userStreams, userRooms, messageHistory, userPresence,
  \* the chatStream() calls: the closure variables userId and currentRooms of
  \* each stream, its destroyed flag, the terminal events it has emitted and
  \* the messages written to it
  streams,
  \* number of uuidv4() values drawn, number of chat operations made, and
  \* the latest chat operation with what it answered
  nextId, chatOps, lastOp

breakerVars == <<state, failures, nextAttempt, failureThreshold, resetTimeout>>
vars == <<state, failures, nextAttempt, failureThreshold, resetTimeout, now,
          calls, settled, started, ticks, retry, runs,
          endpoints, strategy, currentIndex, healthyEndpoints, lastHealthCheck,
          probing, picks, lastPick, evicted, changedSincePick, lastMarked,
          client, clientCalls,
          rooms, userStreams, userRooms, messageHistory, userPresence,
          streams, nextId, chatOps, lastOp>>

chatVars == <<rooms, userStreams, userRooms, messageHistory, userPresence,
              streams, nextId, chatOps, lastOp>>

clientVars == <<client, clientCalls>>

lbVars == <<endpoints, strategy, currentIndex, healthyEndpoints,
            lastHealthCheck, probing, picks, lastPick, evicted,
            changedSincePick, lastMarked>>

\* what the LoadBalancer does not touch
resilienceVars == <<breakerVars, now, calls, settled, started, ticks, retry, runs>>

Callers == 1..MaxCallers

\* the codes an operation's failure may carry
OpErrorCodes == {UNAVAILABLE, DEADLINE_EXCEEDED, RESOURCE_EXHAUSTED,
                 INVALID_ARGUMENT, NoCode}

\* the breaker does not look at the code: a coded and a plain failure
BreakerOpErrorCodes == {UNAVAILABLE, NoCode}

\* new GrpcError(code, message)
GrpcError(code, message) == [code |-> code, message |-> message]

\* the error an operation throws
OpError(code) == GrpcError(code, "Service error")

\* the error execute() throws while OPEN
CircuitOpenError == GrpcError(UNAVAILABLE, "Circuit breaker is OPEN")

NoError == GrpcError(NoCode, "")

\* options.x || d
OrDefault(v, d) == IF v = 0 THEN d ELSE v

\* a caller that has not called execute() yet; id numbers the calls in call
\* order, admittedIn is this.state as the call found it
IdleCall == [pc |-> "idle", id |-> 0, invoked |-> FALSE, admittedIn |-> "none",
             error |-> NoError]

\* withRetry() not called yet.  attempt, maxRetries, baseDelay are the
\* function's variables; wrapped says that operation is
\* () => breaker.execute(op); rejected, that the breaker rejected the pending
\* attempt; dueAt is the time the backoff timer is due.  invoked counts the
\* operation() calls, outcomes lists the settled attempts and delays the
\* timers set; result is the attempt whose value the call returned, error
\* the error it threw and thrownOf the attempt that error comes from.
IdleRetry ==
  [pc |-> "idle", attempt |-> 0, maxRetries |-> 0, baseDelay |-> 0,
   wrapped |-> FALSE, rejected |-> FALSE, dueAt |-> 0, invoked |-> 0,
   outcomes |-> <<>>, delays |-> <<>>, result |-> 0, error |-> NoError,
   thrownOf |-> 0]

\* constructor(options)
CircuitBreakerInit ==
  /\ \E ft \in 0..MaxThreshold : failureThreshold = OrDefault(ft, DefaultFailureThreshold)
  /\ \E rt \in 0..MaxResetTimeout : resetTimeout = OrDefault(rt, DefaultResetTimeout)
  /\ state = "CLOSED"
  /\ failures = 0
  /\ now = 0
  /\ nextAttempt = now

\* onSuccess()
onSuccess ==
  /\ failures' = 0
  /\ state' = "CLOSED"
  /\ UNCHANGED nextAttempt

\* onFailure() tripping only above the threshold
onFailureStrict ==
  /\ failures' = failures + 1
  /\ IF failures + 1 > failureThreshold
       THEN /\ state' = "OPEN"
            /\ nextAttempt' = now + resetTimeout
       ELSE UNCHANGED <<state, nextAttempt>>

\* onFailure()
onFailure ==
  /\ failures' = failures + 1
  /\ IF failures + 1 >= failureThreshold
       THEN /\ state' = "OPEN"
            /\ nextAttempt' = now + resetTimeout
       ELSE UNCHANGED <<state, nextAttempt>>

\* execute() rejecting only until one tick before nextAttempt
IsRejectingEarly == state = "OPEN" /\ now + 1 < nextAttempt

\* execute(): if (this.state === 'OPEN') { if (Date.now() < this.nextAttempt) throw
IsRejecting == state = "OPEN" /\ now < nextAttempt

\* execute(): the breaker's part of the steps before the await
ExecuteEnter ==
  IF IsRejecting
    THEN UNCHANGED state
    ELSE state' = IF state = "OPEN" THEN "HALF_OPEN" ELSE state

\* execute(operation), up to the await: reject while OPEN before nextAttempt,
\* otherwise (OPEN -> HALF_OPEN and) invoke the operation
Execute(c) ==
  /\ calls[c].pc # "running"
  /\ started < MaxCalls
  /\ started' = started + 1
  /\ ExecuteEnter
  /\ calls' = [calls EXCEPT ![c] =
       IF IsRejecting
         THEN [pc |-> "thrown", id |-> started + 1, invoked |-> FALSE,
               admittedIn |-> "none", error |-> CircuitOpenError]
         ELSE [pc |-> "running", id |-> started + 1, invoked |-> TRUE,
               admittedIn |-> state, error |-> NoError]]
  /\ UNCHANGED <<failures, nextAttempt, failureThreshold, resetTimeout, now,
                 settled, ticks, retry, runs, lbVars, clientVars, chatVars>>

\* execute(operation), after the await: the operation resolved
OperationSucceeds(c) ==
  /\ calls[c].pc = "running"
  /\ onSuccess
  /\ calls' = [calls EXCEPT ![c].pc = "returned"]
  /\ settled' = Append(settled, "ok")
  /\ UNCHANGED <<failureThreshold, resetTimeout, now,
                 started, ticks, retry, runs, lbVars, clientVars, chatVars>>

\* execute(operation), after the await: the operation rejected with error
OperationFails(c, code) ==
  /\ calls[c].pc = "running"
  /\ onFailure
  /\ calls' = [calls EXCEPT ![c].pc = "thrown", ![c].error = OpError(code)]
  /\ settled' = Append(settled, "err")
  /\ UNCHANGED <<failureThreshold, resetTimeout, now,
                 started, ticks, retry, runs, lbVars, clientVars, chatVars>>

\* the clock advances (Date.now() is read, never set)
Tick(d) ==
  /\ ticks < MaxTicks
  /\ ticks' = ticks + 1
  /\ now' = now + d
  /\ UNCHANGED <<breakerVars, calls, settled, started, retry, runs, lbVars, clientVars, chatVars>>

(* ------------------------------ withRetry ------------------------------ *)

\* withRetry retrying on every coded failure
IsTransientAnyCode(code) == code # NoCode

\* the codes withRetry retries on
IsTransient(code) ==
  \/ code = UNAVAILABLE
  \/ code = DEADLINE_EXCEEDED
  \/ code = RESOURCE_EXHAUSTED

RECURSIVE Pow(_, _)
\* Math.pow(b, e) for a natural e
Pow(b, e) == IF e = 0 THEN 1 ELSE b * Pow(b, e - 1)

\* the backoff doubling once too often
BackoffDelayLate(baseDelay, attempt) == baseDelay * Pow(2, attempt)

\* const delay = baseDelay * Math.pow(2, attempt - 1)
BackoffDelay(baseDelay, attempt) == baseDelay * Pow(2, attempt - 1)

\* the catch block giving up one attempt early
CatchOffByOne(r, e) ==
  IF r.attempt + 1 >= r.maxRetries
    THEN [r EXCEPT !.pc = "thrown", !.error = e, !.thrownOf = r.attempt]
    ELSE IF IsTransient(e.code)
      THEN [r EXCEPT !.pc = "sleeping",
                     !.delays = Append(@, BackoffDelay(r.baseDelay, r.attempt)),
                     !.dueAt = now + BackoffDelay(r.baseDelay, r.attempt)]
      ELSE [r EXCEPT !.pc = "thrown", !.error = e, !.thrownOf = r.attempt]

\* the catch block of withRetry, for error e of attempt r.attempt
Catch(r, e) ==
  IF r.attempt = r.maxRetries
    THEN [r EXCEPT !.pc = "thrown", !.error = e, !.thrownOf = r.attempt]
    ELSE IF IsTransient(e.code)
      THEN [r EXCEPT !.pc = "sleeping",
                     !.delays = Append(@, BackoffDelay(r.baseDelay, r.attempt)),
                     !.dueAt = now + BackoffDelay(r.baseDelay, r.attempt)]
      ELSE [r EXCEPT !.pc = "thrown", !.error = e, !.thrownOf = r.attempt]

\* return await operation(): the call of operation(), which is op itself or
\* breaker.execute(op)
InvokeOperation(r) ==
  /\ IF r.wrapped THEN ExecuteEnter ELSE UNCHANGED state
  /\ retry' = [r EXCEPT !.pc = "awaiting", !.invoked = @ + 1,
                        !.rejected = r.wrapped /\ IsRejecting]

\* withRetry(operation, maxRetries, baseDelay), up to the first await
WithRetry(maxRetries, baseDelay, wrapped) ==
  /\ retry.pc \in {"idle", "returned", "thrown"}
  /\ runs < MaxRuns
  /\ runs' = runs + 1
  /\ IF 1 <= maxRetries
       THEN InvokeOperation([IdleRetry EXCEPT !.attempt = 1,
                                              !.maxRetries = maxRetries,
                                              !.baseDelay = baseDelay,
                                              !.wrapped = wrapped])
       ELSE /\ retry' = [IdleRetry EXCEPT !.pc = "returned", !.attempt = 1,
                                          !.maxRetries = maxRetries,
                                          !.baseDelay = baseDelay,
                                          !.wrapped = wrapped]
            /\ UNCHANGED state
  /\ UNCHANGED <<failures, nextAttempt, failureThreshold, resetTimeout, now,
                 calls, settled, started, ticks, lbVars, clientVars, chatVars>>

\* the awaited operation resolved: return its value
AttemptSucceeds ==
  /\ retry.pc = "awaiting"
  /\ ~retry.rejected
  /\ IF retry.wrapped
       THEN onSuccess /\ settled' = Append(settled, "ok")
       ELSE UNCHANGED <<state, failures, nextAttempt, settled>>
  /\ retry' = [retry EXCEPT !.pc = "returned", !.result = retry.attempt,
                 !.outcomes = Append(@, [ok |-> TRUE, error |-> NoError])]
  /\ UNCHANGED <<failureThreshold, resetTimeout, now, calls,
                 started, ticks, runs, lbVars, clientVars, chatVars>>

\* the awaited operation rejected with an error of the given code
AttemptFails(code) ==
  /\ retry.pc = "awaiting"
  /\ ~retry.rejected
  /\ IF retry.wrapped
       THEN onFailure /\ settled' = Append(settled, "err")
       ELSE UNCHANGED <<state, failures, nextAttempt, settled>>
  /\ retry' = Catch([retry EXCEPT !.outcomes =
                       Append(@, [ok |-> FALSE, error |-> OpError(code)])],
                    OpError(code))
  /\ UNCHANGED <<failureThreshold, resetTimeout, now, calls,
                 started, ticks, runs, lbVars, clientVars, chatVars>>

\* the awaited breaker.execute(op) rejected with the circuit-open error
AttemptRejected ==
  /\ retry.pc = "awaiting"
  /\ retry.rejected
  /\ retry' = Catch([retry EXCEPT !.outcomes =
                       Append(@, [ok |-> FALSE, error |-> CircuitOpenError])],
                    CircuitOpenError)
  /\ UNCHANGED <<breakerVars, now, calls, settled, started, ticks, runs, lbVars, clientVars, chatVars>>

\* time passes until the backoff timer is due
Backoff ==
  /\ retry.pc = "sleeping"
  /\ now < retry.dueAt
  /\ now' = retry.dueAt
  /\ UNCHANGED <<breakerVars, calls, settled, started, ticks, retry, runs,
                 lbVars, clientVars, chatVars>>

\* the setTimeout of the backoff fires: next iteration of the loop
TimerFires ==
  /\ retry.pc = "sleeping"
  /\ now >= retry.dueAt
  /\ IF retry.attempt + 1 <= retry.maxRetries
       THEN InvokeOperation([retry EXCEPT !.attempt = @ + 1])
       ELSE /\ retry' = [retry EXCEPT !.attempt = @ + 1, !.pc = "returned"]
            /\ UNCHANGED state
  /\ UNCHANGED <<failures, nextAttempt, failureThreshold, resetTimeout, now,
                 calls, settled, started, ticks, runs, lbVars, clientVars, chatVars>>

(* ------------------------------- gateway ------------------------------- *)

\* new CircuitBreaker({ failureThreshold: 3, resetTimeout: 30000 })
GatewayFailureThreshold == 3
GatewayResetTimeout == 30000

\* withRetry(operation, maxRetries = 3, baseDelay = 1000)
WithRetryMaxRetries == 3

\* circuitBreakers.user.execute(async () => grpcCall(...)), up to the first
\* await: execute() rejects while OPEN before nextAttempt; otherwise it calls
\* the operation, whose grpcCall() starts withRetry() with its default
\* arguments, which calls client.call() for the first attempt
GatewayExecute(c) ==
  /\ calls[c].pc # "running"
  /\ retry.pc \in {"idle", "returned", "thrown"}
  /\ started < MaxCalls
  /\ started' = started + 1
  /\ ExecuteEnter
  /\ IF IsRejecting
       THEN /\ calls' = [calls EXCEPT ![c] =
                 [pc |-> "thrown", id |-> started + 1, invoked |-> FALSE,
                  admittedIn |-> "none", error |-> CircuitOpenError]]
            /\ UNCHANGED <<retry, runs>>
       ELSE /\ calls' = [calls EXCEPT ![c] =
                 [pc |-> "running", id |-> started + 1, invoked |-> TRUE,
                  admittedIn |-> state, error |-> NoError]]
            /\ retry' = [IdleRetry EXCEPT !.pc = "awaiting", !.attempt = 1,
                                          !.maxRetries = WithRetryMaxRetries,
                                          !.baseDelay = DefaultBaseDelay,
                                          !.invoked = 1]
            /\ runs' = runs + 1
  /\ UNCHANGED <<failures, nextAttempt, failureThreshold, resetTimeout, now,
                 settled, ticks, lbVars, clientVars, chatVars>>

\* client.call() resolved: withRetry returns its value, and execute(), whose
\* await was on that promise, runs onSuccess()
GatewayAttemptSucceeds(c) ==
  /\ calls[c].pc = "running"
  /\ retry.pc = "awaiting"
  /\ retry' = [retry EXCEPT !.pc = "returned", !.result = retry.attempt,
                 !.outcomes = Append(@, [ok |-> TRUE, error |-> NoError])]
  /\ onSuccess
  /\ calls' = [calls EXCEPT ![c].pc = "returned"]
  /\ settled' = Append(settled, "ok")
  /\ UNCHANGED <<failureThreshold, resetTimeout, now, started, ticks, runs,
                 lbVars, clientVars, chatVars>>

\* a chain in which the breaker counts every failed attempt
GatewayAttemptFailsCounted(c, code) ==
  LET r == Catch([retry EXCEPT !.outcomes =
                    Append(@, [ok |-> FALSE, error |-> OpError(code)])],
                 OpError(code))
  IN /\ calls[c].pc = "running"
     /\ retry.pc = "awaiting"
     /\ retry' = r
     /\ onFailure
     /\ IF r.pc = "thrown"
          THEN /\ calls' = [calls EXCEPT ![c].pc = "thrown", ![c].error = r.error]
               /\ settled' = Append(settled, "err")
          ELSE UNCHANGED <<calls, settled>>
     /\ UNCHANGED <<failureThreshold, resetTimeout, now, started, ticks, runs,
                    lbVars, clientVars, chatVars>>

\* client.call() rejected: the catch block of withRetry sets the backoff
\* timer or throws; when it throws, execute(), whose await was on that
\* promise, runs onFailure() and throws the error on
GatewayAttemptFails(c, code) ==
  LET r == Catch([retry EXCEPT !.outcomes =
                    Append(@, [ok |-> FALSE, error |-> OpError(code)])],
                 OpError(code))
  IN /\ calls[c].pc = "running"
     /\ retry.pc = "awaiting"
     /\ retry' = r
     /\ IF r.pc = "thrown"
          THEN /\ onFailure
               /\ calls' = [calls EXCEPT ![c].pc = "thrown", ![c].error = r.error]
               /\ settled' = Append(settled, "err")
          ELSE UNCHANGED <<state, failures, nextAttempt, calls, settled>>
     /\ UNCHANGED <<failureThreshold, resetTimeout, now, started, ticks, runs,
                    lbVars, clientVars, chatVars>>

(* ----------------------------- LoadBalancer ---------------------------- *)

Range(seq) == {seq[i] : i \in 1..Len(seq)}

\* Set.prototype.add that appends without looking for the value
SetAddAgain(set, e) == Append(set, e)

\* Set.prototype.add, on a set kept in insertion order
SetAdd(set, e) == IF e \in Range(set) THEN set ELSE Append(set, e)

\* Set.prototype.delete
SetDelete(set, e) == SelectSeq(set, LAMBDA x : x # e)

\* constructor(endpoints, strategy)
LoadBalancerInit ==
  /\ endpoints = <<"A", "B", "C">>
  /\ strategy \in {"round-robin", "random", "least-connections", "weighted"}
  /\ currentIndex = 0
  /\ healthyEndpoints = endpoints
  /\ lastHealthCheck = [e \in Range(endpoints) |-> "none"]
  /\ probing = {}

\* roundRobin(endpoints) reading the full endpoint list
roundRobinAll(eps) == endpoints[(currentIndex % Len(endpoints)) + 1]

\* roundRobin(endpoints) reading the cursor after its increment
roundRobinLate(eps) == eps[((currentIndex + 1) % Len(eps)) + 1]

\* roundRobin(endpoints): the endpoint returned (arrays are 0-based)
roundRobin(eps) == eps[(currentIndex % Len(eps)) + 1]

\* random(endpoints), for a value i of Math.floor(Math.random() * length)
random(eps, i) == eps[i + 1]

RECURSIVE Reduce(_, _, _, _)
\* Array.prototype.reduce from index i with accumulator min; less[i] is the
\* outcome of currentConnections < minConnections for element i
Reduce(eps, less, i, min) ==
  IF i > Len(eps) THEN min
  ELSE Reduce(eps, less, i + 1, IF less[i] THEN eps[i] ELSE min)

\* leastConnections(endpoints)
leastConnections(eps, less) == Reduce(eps, less, 2, eps[1])

\* getEndpoint(): what it returns or throws, and the cursor
getEndpoint ==
  /\ picks' = picks + 1
  /\ changedSincePick' = FALSE
  /\ LET healthy == healthyEndpoints IN
     IF Len(healthy) = 0
       THEN /\ lastPick' = "No healthy endpoints available"
            /\ UNCHANGED currentIndex
       ELSE CASE strategy = "random" ->
                   /\ \E i \in 0..(Len(healthy) - 1) : lastPick' = random(healthy, i)
                   /\ UNCHANGED currentIndex
              [] strategy = "least-connections" ->
                   /\ \E less \in [2..Len(healthy) -> BOOLEAN] :
                        lastPick' = leastConnections(healthy, less)
                   /\ UNCHANGED currentIndex
              [] OTHER ->
                   /\ lastPick' = roundRobin(healthy)
                   /\ currentIndex' = currentIndex + 1

\* a getEndpoint() call
GetEndpoint ==
  /\ picks < MaxPicks
  /\ getEndpoint
  /\ lastMarked' = "none"
  /\ UNCHANGED <<endpoints, strategy, healthyEndpoints, lastHealthCheck,
                 probing, evicted>>
  /\ UNCHANGED <<resilienceVars, clientVars, chatVars>>

\* the setInterval callback of startHealthChecking(): checkHealth(endpoint),
\* up to its await, for every endpoint
HealthCheckInterval ==
  /\ probing # Range(endpoints)
  /\ probing' = Range(endpoints)
  /\ lastMarked' = "none"
  /\ UNCHANGED <<endpoints, strategy, currentIndex, healthyEndpoints,
                 lastHealthCheck, picks, lastPick, evicted, changedSincePick>>
  /\ UNCHANGED <<resilienceVars, clientVars, chatVars>>

\* checkHealth(endpoint) after the await: waitForReady called back without error
ProbeSucceeds(e) ==
  /\ e \in probing
  /\ probing' = probing \ {e}
  /\ healthyEndpoints' = SetAdd(healthyEndpoints, e)
  /\ lastHealthCheck' = [lastHealthCheck EXCEPT ![e] = "healthy"]
  /\ changedSincePick' = (changedSincePick \/ e \notin Range(healthyEndpoints))
  /\ lastMarked' = "none"
  /\ UNCHANGED <<endpoints, strategy, currentIndex, picks, lastPick, evicted>>
  /\ UNCHANGED <<resilienceVars, clientVars, chatVars>>

\* checkHealth(endpoint) after the await: waitForReady called back with an error
ProbeFails(e) ==
  /\ e \in probing
  /\ probing' = probing \ {e}
  /\ healthyEndpoints' = SetDelete(healthyEndpoints, e)
  /\ lastHealthCheck' = [lastHealthCheck EXCEPT ![e] = "unhealthy"]
  /\ evicted' = (evicted \/ e \in Range(healthyEndpoints))
  /\ changedSincePick' = (changedSincePick \/ e \in Range(healthyEndpoints))
  /\ lastMarked' = "none"
  /\ UNCHANGED <<endpoints, strategy, currentIndex, picks, lastPick>>
  /\ UNCHANGED <<resilienceVars, clientVars, chatVars>>

\* markUnhealthy(endpoint) that only logs the warning
markUnhealthyLogOnly(e) ==
  UNCHANGED <<healthyEndpoints, evicted, changedSincePick>>

\* markUnhealthy(endpoint): the healthy set
markUnhealthy(e) ==
  /\ healthyEndpoints' = SetDelete(healthyEndpoints, e)
  /\ evicted' = (evicted \/ e \in Range(healthyEndpoints))
  /\ changedSincePick' = (changedSincePick \/ e \in Range(healthyEndpoints))

\* a markUnhealthy(endpoint) call
MarkUnhealthy(e) ==
  /\ markUnhealthy(e)
  /\ lastMarked' = e
  /\ UNCHANGED <<endpoints, strategy, currentIndex, lastHealthCheck, probing,
                 picks, lastPick>>
  /\ UNCHANGED <<resilienceVars, clientVars, chatVars>>

(* ------------------------ LoadBalancedGrpcClient ----------------------- *)

\* the codes an RPC failure may carry
RpcErrorCodes == {UNAVAILABLE, DEADLINE_EXCEEDED, INVALID_ARGUMENT,
                  UNAUTHENTICATED, PERMISSION_DENIED}

\* new Error('No healthy endpoints available'), thrown by getEndpoint()
NoHealthyError == GrpcError(NoCode, "No healthy endpoints available")

\* the ReferenceError of reading endpoint in the catch block of call(): the
\* const is declared inside the try block
EndpointReferenceError == GrpcError(NoCode, "endpoint is not defined")

\* constructor(serviceDefinition, endpoints, options) and no call() yet.
\* attempt, endpoint and lastError are the variables of call(); attempts
\* lists the RPCs that settled with their endpoint and code (0 for a
\* response); result is the attempt whose response was returned and error
\* the error thrown.
IdleClient(maxRetries) ==
  [pc |-> "idle", maxRetries |-> OrDefault(maxRetries, DefaultMaxRetries),
   attempt |-> 0, endpoint |-> "none", lastError |-> NoError,
   attempts |-> <<>>, result |-> 0, error |-> NoError]

\* one pass of the for loop of call() from its head, up to the await or the
\* throw; with no healthy endpoint every remaining pass throws in getEndpoint()
\* and only records lastError
loopIteration(r) ==
  IF r.attempt >= r.maxRetries
    THEN /\ client' = [r EXCEPT !.pc = "thrown", !.error = r.lastError]
         /\ UNCHANGED <<picks, lastPick, currentIndex, changedSincePick>>
    ELSE IF Len(healthyEndpoints) = 0
      THEN /\ client' = [r EXCEPT !.pc = "thrown", !.attempt = r.maxRetries,
                                  !.lastError = NoHealthyError,
                                  !.error = NoHealthyError]
           /\ picks' = picks + (r.maxRetries - r.attempt)
           /\ lastPick' = "No healthy endpoints available"
           /\ changedSincePick' = FALSE
           /\ UNCHANGED currentIndex
      ELSE /\ getEndpoint
           /\ client' = [r EXCEPT !.pc = "awaiting", !.endpoint = lastPick']

\* the catch block of call() for an RPC error of the given code
callCatch(r, code) ==
  IF code = UNAVAILABLE
    THEN \* this.loadBalancer.markUnhealthy(endpoint) throws the ReferenceError
         /\ client' = [r EXCEPT !.pc = "thrown", !.lastError = OpError(code),
                                !.error = EndpointReferenceError]
         /\ UNCHANGED <<healthyEndpoints, evicted, picks, lastPick,
                        currentIndex, changedSincePick>>
    ELSE IF code \in {INVALID_ARGUMENT, UNAUTHENTICATED, PERMISSION_DENIED}
      THEN /\ client' = [r EXCEPT !.pc = "thrown", !.lastError = OpError(code),
                                  !.error = OpError(code)]
           /\ UNCHANGED <<healthyEndpoints, evicted, picks, lastPick,
                          currentIndex, changedSincePick>>
      ELSE /\ loopIteration([r EXCEPT !.lastError = OpError(code),
                                      !.attempt = @ + 1])
           /\ UNCHANGED <<healthyEndpoints, evicted>>

\* call(method, request, metadata), up to the first await
ClientCall ==
  /\ client.pc \in {"idle", "returned", "thrown"}
  /\ clientCalls < MaxClientCalls
  /\ clientCalls' = clientCalls + 1
  /\ loopIteration([client EXCEPT !.attempt = 0, !.endpoint = "none",
                                  !.lastError = NoError, !.attempts = <<>>,
                                  !.result = 0, !.error = NoError])
  /\ lastMarked' = "none"
  /\ UNCHANGED <<endpoints, strategy, healthyEndpoints, lastHealthCheck,
                 probing, evicted>>
  /\ UNCHANGED <<resilienceVars, chatVars>>

\* the RPC called back with a response
RpcSucceeds ==
  /\ client.pc = "awaiting"
  /\ client' = [client EXCEPT !.pc = "returned", !.result = client.attempt + 1,
                   !.attempts = Append(@, [endpoint |-> client.endpoint,
                                           code |-> 0])]
  /\ UNCHANGED <<lbVars, clientCalls, resilienceVars, chatVars>>

\* the RPC called back with an error of the given code
RpcFails(code) ==
  /\ client.pc = "awaiting"
  /\ callCatch([client EXCEPT !.attempts =
                  Append(@, [endpoint |-> client.endpoint, code |-> code])],
               code)
  /\ lastMarked' = "none"
  /\ UNCHANGED <<endpoints, strategy, lastHealthCheck, probing, clientCalls>>
  /\ UNCHANGED <<resilienceVars, chatVars>>

(* ------------------------------ ChatService ---------------------------- *)

UserIds == {"u1", "u2"}
RoomIds == {"r1", "r2"}
Conns == 1..MaxConns

\* a user id that is absent (undefined or the empty string, both falsy)
NoUser == ""

\* call.metadata.get('user-id')[0] of each stream: the first stream carries
\* the header, the others do not
StreamMetadata == [c \in Conns |-> IF c = 1 THEN "u1" ELSE NoUser]

\* the message types a client can put in a ChatMessage
MessageTypes == {"TEXT", "TYPING", "SYSTEM"}

\* the statuses a client passes to updatePresence
PresenceStatuses == {"ONLINE", "AWAY"}

\* id and timestamp as a client sends them: never a value uuidv4() returns,
\* and a clock reading of its own
ClientId == 0
ClientTimestamp == 0 - 1

\* Map operations
EmptyMap == [k \in {} |-> 0]
MapSet(m, k, v) == [x \in (DOMAIN m) \cup {k} |-> IF x = k THEN v ELSE m[x]]
MapDelete(m, k) == [x \in (DOMAIN m) \ {k} |-> m[x]]
\* map.get(k) || dflt
MapGet(m, k, dflt) == IF k \in DOMAIN m THEN m[k] ELSE dflt

ChatMessage(id, room, user, type, ts, content) ==
  [id |-> id, room_id |-> room, user_id |-> user, type |-> type,
   timestamp |-> ts, content |-> content]

\* the closure of a chatStream() call before its first 'data' event
IdleStream ==
  [userId |-> NoUser, currentRooms |-> <<>>,
   destroyed |-> FALSE, events |-> {}, received |-> <<>>]

\* the member set of a room of the registry rms
Members(rms, room) == Range(MapGet(rms, room, <<>>))

\* the latest operation: what it was called with, what it answered, and
\* whether its user was a member of its room when it began
NoOp ==
  [op |-> "none", conn |-> 0, user |-> NoUser, room |-> "", type |-> "",
   outcome |-> "", msgs |-> <<>>, notified |-> {}, failed |-> {},
   hasMore |-> FALSE, participants |-> <<>>, member |-> FALSE,
   limit |-> 0, before |-> 0, sender |-> NoUser, status |-> ""]

\* new ChatService()
ChatServiceInit ==
  /\ rooms = EmptyMap
  /\ userStreams = EmptyMap
  /\ userRooms = EmptyMap
  /\ messageHistory = EmptyMap
  /\ userPresence = EmptyMap
  /\ streams = [c \in Conns |-> IdleStream]
  /\ nextId = 0
  /\ chatOps = 0
  /\ lastOp = NoOp

\* broadcastToRoom(): the members of the room that are written to
Recipients(dir, strs, roomUsers, excludeUserId) ==
  {u \in Range(roomUsers) :
     /\ u # excludeUserId
     /\ u \in DOMAIN dir
     /\ ~strs[dir[u]].destroyed}

\* a broadcastToRoom() whose loop is ended by the first write that throws
broadcastStreamsAborted(dir, strs, roomUsers, message, excludeUserId, fail) ==
  [c \in Conns |->
     IF /\ \E u \in Recipients(dir, strs, roomUsers, excludeUserId) : dir[u] = c
        /\ \A u \in Recipients(dir, strs, roomUsers, excludeUserId) :
             dir[u] \notin fail
       THEN [strs[c] EXCEPT !.received = Append(@, message)]
       ELSE strs[c]]

\* broadcastToRoom(): the streams after the writes; a write to a stream of
\* fail throws
broadcastStreams(dir, strs, roomUsers, message, excludeUserId, fail) ==
  [c \in Conns |->
     IF \E u \in Recipients(dir, strs, roomUsers, excludeUserId) :
          dir[u] = c /\ c \notin fail
       THEN [strs[c] EXCEPT !.received = Append(@, message)]
       ELSE strs[c]]

\* broadcastToRoom(): userStreams after the catch blocks
broadcastDir(dir, strs, roomUsers, excludeUserId, fail) ==
  [u \in {v \in DOMAIN dir :
            ~(v \in Recipients(dir, strs, roomUsers, excludeUserId)
              /\ dir[v] \in fail)} |-> dir[u]]

\* the streams whose write threw in a broadcast to roomUsers
Failed(dir, strs, roomUsers, excludeUserId, fail) ==
  {dir[u] : u \in Recipients(dir, strs, roomUsers, excludeUserId)} \cap fail

\* a catch block that destroys every stream of the service
destroyStreamAll(c, dir, strs, outcome, m) ==
  /\ streams' = [d \in Conns |-> [strs[d] EXCEPT !.destroyed = TRUE]]
  /\ userStreams' = dir
  /\ lastOp' = [NoOp EXCEPT !.op = "data", !.conn = c, !.user = strs[c].userId,
                            !.room = m.room_id, !.type = m.type,
                            !.outcome = outcome, !.sender = m.user_id,
                            !.member = strs[c].userId \in Members(rooms, m.room_id)]
  /\ UNCHANGED <<messageHistory, nextId>>

\* the catch block of the 'data' listener: call.destroy(error)
destroyStream(c, dir, strs, outcome, m) ==
  /\ streams' = [strs EXCEPT ![c].destroyed = TRUE]
  /\ userStreams' = dir
  /\ lastOp' = [NoOp EXCEPT !.op = "data", !.conn = c, !.user = strs[c].userId,
                            !.room = m.room_id, !.type = m.type,
                            !.outcome = outcome, !.sender = m.user_id,
                            !.member = strs[c].userId \in Members(rooms, m.room_id)]
  /\ UNCHANGED <<messageHistory, nextId>>

\* a message is stored and fanned out under a fresh id and the server's clock
storeAndBroadcast(c, m, dir, strs, fail) ==
  LET message == [m EXCEPT !.id = nextId + 1, !.timestamp = now]
      roomId == m.room_id
      roomUsers == MapGet(rooms, roomId, <<>>)
  IN /\ nextId' = nextId + 1
     /\ messageHistory' =
          MapSet(messageHistory, roomId,
                 Append(MapGet(messageHistory, roomId, <<>>), message))
     /\ streams' = broadcastStreams(dir, strs, roomUsers, message, NoUser, fail)
     /\ userStreams' = broadcastDir(dir, strs, roomUsers, NoUser, fail)
     /\ lastOp' = [NoOp EXCEPT !.op = "data", !.conn = c,
                     !.user = strs[c].userId, !.room = roomId, !.type = m.type,
                     !.outcome = "accepted", !.msgs = <<message>>,
                     !.sender = m.user_id,
                     !.member = strs[c].userId \in Members(rooms, roomId),
                     !.failed = Failed(dir, strs, roomUsers, NoUser, fail)]

\* handleChatMessage(message, userRooms), called with the stream's currentRooms
handleChatMessage(c, m, dir, strs, fail) ==
  IF m.room_id \notin Range(strs[c].currentRooms)
    THEN destroyStream(c, dir, strs, "User not in room", m)
    ELSE storeAndBroadcast(c, m, dir, strs, fail)

handleTypingIndicatorStored(c, m, dir, strs, fail) ==
  IF m.room_id \notin Range(strs[c].currentRooms)
    THEN /\ streams' = strs
         /\ userStreams' = dir
         /\ lastOp' = [NoOp EXCEPT !.op = "data", !.conn = c,
                         !.user = strs[c].userId, !.room = m.room_id,
                         !.type = m.type, !.outcome = "ignored",
                         !.sender = m.user_id,
                         !.member = strs[c].userId \in Members(rooms, m.room_id)]
         /\ UNCHANGED <<messageHistory, nextId>>
    ELSE storeAndBroadcast(c, m, dir, strs, fail)

\* handleTypingIndicator(message, userRooms)
handleTypingIndicator(c, m, dir, strs, fail) ==
  LET roomUsers == MapGet(rooms, m.room_id, <<>>) IN
  IF m.room_id \notin Range(strs[c].currentRooms)
    THEN /\ streams' = strs
         /\ userStreams' = dir
         /\ lastOp' = [NoOp EXCEPT !.op = "data", !.conn = c,
                         !.user = strs[c].userId, !.room = m.room_id,
                         !.type = m.type, !.outcome = "ignored",
                         !.sender = m.user_id,
                         !.member = strs[c].userId \in Members(rooms, m.room_id)]
         /\ UNCHANGED <<messageHistory, nextId>>
    ELSE /\ streams' = broadcastStreams(dir, strs, roomUsers, m, m.user_id, fail)
         /\ userStreams' = broadcastDir(dir, strs, roomUsers, m.user_id, fail)
         /\ lastOp' = [NoOp EXCEPT !.op = "data", !.conn = c,
                         !.user = strs[c].userId, !.room = m.room_id,
                         !.type = m.type, !.outcome = "accepted",
                         !.msgs = <<m>>, !.sender = m.user_id,
                         !.member = strs[c].userId \in Members(rooms, m.room_id),
                         !.failed = Failed(dir, strs, roomUsers, m.user_id, fail)]
         /\ UNCHANGED <<messageHistory, nextId>>

\* a handleSystemMessage that checks the sender's rooms as content messages do
handleSystemMessageChecked(c, m, dir, strs, fail) ==
  handleChatMessage(c, m, dir, strs, fail)

\* handleSystemMessage(message)
handleSystemMessage(c, m, dir, strs, fail) ==
  storeAndBroadcast(c, m, dir, strs, fail)

\* a binding that asks the stream metadata first
bindUserIdMetadataFirst(c, m) ==
  IF StreamMetadata[c] # NoUser THEN StreamMetadata[c] ELSE m.user_id

\* message.user_id || call.metadata.get('user-id')[0]
bindUserId(c, m) ==
  IF m.user_id # NoUser THEN m.user_id ELSE StreamMetadata[c]

\* a binding that starts the stream with no room
previousRoomsNone(userId) == <<>>

\* the rooms a stream is bound with: userRoomsSet.forEach(roomId =>
\* currentRooms.add(roomId)) on this.userRooms.get(userId) || new Set()
previousRooms(userId) == MapGet(userRooms, userId, <<>>)

\* call.on('data', ...) for message m
StreamData(c, m, fail) ==
  /\ ~streams[c].destroyed
  /\ streams[c].events = {}
  /\ chatOps < MaxChatOps
  /\ chatOps' = chatOps + 1
  /\ LET s == streams[c]
         first == s.userId = NoUser
         uid == IF ~first THEN s.userId ELSE bindUserId(c, m)
     IN IF uid = NoUser
          THEN destroyStream(c, userStreams, streams, "User ID required", m)
          ELSE LET dir == IF first THEN MapSet(userStreams, uid, c)
                          ELSE userStreams
                   strs == IF first
                             THEN [streams EXCEPT
                                     ![c].userId = uid,
                                     ![c].currentRooms = previousRooms(uid)]
                             ELSE streams
               IN CASE m.type \in {"TEXT", "IMAGE", "FILE"} ->
                            handleChatMessage(c, m, dir, strs, fail)
                       [] m.type = "TYPING" ->
                            handleTypingIndicator(c, m, dir, strs, fail)
                       [] m.type = "SYSTEM" ->
                            handleSystemMessage(c, m, dir, strs, fail)
  /\ fail = lastOp'.failed
  /\ UNCHANGED <<rooms, userRooms, userPresence>>
  /\ UNCHANGED <<resilienceVars, lbVars, clientVars>>

RECURSIVE notifyRooms(_, _, _, _, _, _)
\* userRooms.forEach(roomId => ... broadcastToRoom(roomId, message, exclude)):
\* one SYSTEM message per room, each under a fresh id; st carries userStreams,
\* the streams, the id counter and the streams whose write threw
notifyRooms(st, roomIds, userId, content, excludeUserId, fail) ==
  IF roomIds = <<>> THEN st
  ELSE LET roomId == Head(roomIds)
           roomUsers == MapGet(rooms, roomId, <<>>)
           message == ChatMessage(st.id + 1, roomId, userId, "SYSTEM", now,
                                  content)
       IN notifyRooms(
            [dir |-> broadcastDir(st.dir, st.strs, roomUsers, excludeUserId,
                                  fail),
             strs |-> broadcastStreams(st.dir, st.strs, roomUsers, message,
                                       excludeUserId, fail),
             id |-> st.id + 1,
             failed |-> st.failed \cup Failed(st.dir, st.strs, roomUsers,
                                              excludeUserId, fail)],
            Tail(roomIds), userId, content, excludeUserId, fail)

\* handleUserDisconnect(userId, userRooms), called with the stream's userId
\* and currentRooms by the listener of event ev
handleUserDisconnect(c, ev, fail) ==
  LET userId == streams[c].userId
      strs == [streams EXCEPT ![c].events = @ \cup {ev}]
  IN IF userId = NoUser
       THEN /\ streams' = strs
            /\ lastOp' = [NoOp EXCEPT !.op = ev, !.conn = c]
            /\ UNCHANGED <<userStreams, userPresence, nextId>>
       ELSE LET st == notifyRooms([dir |-> MapDelete(userStreams, userId),
                                   strs |-> strs, id |-> nextId,
                                   failed |-> {}],
                                  streams[c].currentRooms, userId,
                                  "User left the room", NoUser, fail)
            IN /\ streams' = st.strs
               /\ userStreams' = st.dir
               /\ nextId' = st.id
               /\ userPresence' = MapSet(userPresence, userId, "OFFLINE")
               /\ lastOp' = [NoOp EXCEPT
                               !.op = ev, !.conn = c, !.user = userId,
                               !.notified = Range(streams[c].currentRooms),
                               !.failed = st.failed]

\* a terminal event of the stream is delivered to its listener
StreamTerminal(c, ev, fail) ==
  /\ ev \notin streams[c].events
  /\ chatOps < MaxChatOps
  /\ chatOps' = chatOps + 1
  /\ handleUserDisconnect(c, ev, fail)
  /\ fail = lastOp'.failed
  /\ UNCHANGED <<rooms, userRooms, messageHistory>>
  /\ UNCHANGED <<resilienceVars, lbVars, clientVars>>

\* call.on('end', ...)
StreamEnd(c, fail) == StreamTerminal(c, "end", fail)

\* call.on('error', ...)
StreamError(c, fail) == StreamTerminal(c, "error", fail)

\* call.on('cancelled', ...)
StreamCancelled(c, fail) == StreamTerminal(c, "cancelled", fail)

\* a joinRoom that leaves the joiner out of its broadcast
joinRoomToOthers(room_id, user_id, fail) ==
  LET roomUsers == SetAdd(MapGet(rooms, room_id, <<>>), user_id)
      joinMessage == ChatMessage(nextId + 1, room_id, user_id, "SYSTEM", now,
                                 "joined the room")
  IN /\ rooms' = MapSet(rooms, room_id, roomUsers)
     /\ userRooms' = MapSet(userRooms, user_id,
                            SetAdd(MapGet(userRooms, user_id, <<>>), room_id))
     /\ userPresence' = MapSet(userPresence, user_id, "ONLINE")
     /\ nextId' = nextId + 1
     /\ streams' = broadcastStreams(userStreams, streams, roomUsers,
                                    joinMessage, user_id, fail)
     /\ userStreams' = broadcastDir(userStreams, streams, roomUsers, user_id,
                                    fail)
     /\ lastOp' = [NoOp EXCEPT
                     !.op = "joinRoom", !.user = user_id, !.room = room_id,
                     !.outcome = "success", !.msgs = <<joinMessage>>,
                     !.participants = roomUsers,
                     !.member = user_id \in Members(rooms, room_id),
                     !.failed = Failed(userStreams, streams, roomUsers, user_id,
                                       fail)]
     /\ UNCHANGED messageHistory

\* joinRoom(call, callback) for the request {room_id, user_id}
joinRoom(room_id, user_id, fail) ==
  LET roomUsers == SetAdd(MapGet(rooms, room_id, <<>>), user_id)
      joinMessage == ChatMessage(nextId + 1, room_id, user_id, "SYSTEM", now,
                                 "joined the room")
  IN /\ rooms' = MapSet(rooms, room_id, roomUsers)
     /\ userRooms' = MapSet(userRooms, user_id,
                            SetAdd(MapGet(userRooms, user_id, <<>>), room_id))
     /\ userPresence' = MapSet(userPresence, user_id, "ONLINE")
     /\ nextId' = nextId + 1
     /\ streams' = broadcastStreams(userStreams, streams, roomUsers,
                                    joinMessage, NoUser, fail)
     /\ userStreams' = broadcastDir(userStreams, streams, roomUsers, NoUser,
                                    fail)
     /\ lastOp' = [NoOp EXCEPT
                     !.op = "joinRoom", !.user = user_id, !.room = room_id,
                     !.outcome = "success", !.msgs = <<joinMessage>>,
                     !.participants = roomUsers,
                     !.member = user_id \in Members(rooms, room_id),
                     !.failed = Failed(userStreams, streams, roomUsers, NoUser,
                                       fail)]
     /\ UNCHANGED messageHistory

JoinRoom(room_id, user_id, fail) ==
  /\ chatOps < MaxChatOps
  /\ chatOps' = chatOps + 1
  /\ joinRoom(room_id, user_id, fail)
  /\ fail = lastOp'.failed
  /\ UNCHANGED <<resilienceVars, lbVars, clientVars>>

\* a leaveRoom that keeps the room among the user's rooms
leaveUserRoomsKept(room_id, user_id) == userRooms

\* leaveRoom: if (this.userRooms.has(user_id))
\*   this.userRooms.get(user_id).delete(room_id)
leaveUserRooms(room_id, user_id) ==
  IF user_id \in DOMAIN userRooms
    THEN MapSet(userRooms, user_id, SetDelete(userRooms[user_id], room_id))
    ELSE userRooms

\* a leaveRoom that broadcasts to the members the room had before the removal
leaveRoomToAll(room_id, user_id, fail) ==
  LET left == IF room_id \in DOMAIN rooms
                THEN SetDelete(rooms[room_id], user_id) ELSE <<>>
      rooms1 == IF room_id \notin DOMAIN rooms THEN rooms
                ELSE IF Len(left) = 0 THEN MapDelete(rooms, room_id)
                ELSE MapSet(rooms, room_id, left)
      roomUsers == MapGet(rooms, room_id, <<>>)
      leaveMessage == ChatMessage(nextId + 1, room_id, user_id, "SYSTEM", now,
                                  "User left the room")
  IN /\ rooms' = rooms1
     /\ userRooms' = leaveUserRooms(room_id, user_id)
     /\ nextId' = nextId + 1
     /\ streams' = broadcastStreams(userStreams, streams, roomUsers,
                                    leaveMessage, NoUser, fail)
     /\ userStreams' = broadcastDir(userStreams, streams, roomUsers, NoUser,
                                    fail)
     /\ lastOp' = [NoOp EXCEPT
                     !.op = "leaveRoom", !.user = user_id, !.room = room_id,
                     !.outcome = "success", !.msgs = <<leaveMessage>>,
                     !.member = user_id \in Members(rooms, room_id),
                     !.failed = Failed(userStreams, streams, roomUsers, NoUser,
                                       fail)]
     /\ UNCHANGED <<messageHistory, userPresence>>

\* leaveRoom(call, callback) for the request {room_id, user_id}
leaveRoom(room_id, user_id, fail) ==
  LET left == IF room_id \in DOMAIN rooms
                THEN SetDelete(rooms[room_id], user_id) ELSE <<>>
      rooms1 == IF room_id \notin DOMAIN rooms THEN rooms
                ELSE IF Len(left) = 0 THEN MapDelete(rooms, room_id)
                ELSE MapSet(rooms, room_id, left)
      roomUsers == MapGet(rooms1, room_id, <<>>)
      leaveMessage == ChatMessage(nextId + 1, room_id, user_id, "SYSTEM", now,
                                  "User left the room")
  IN /\ rooms' = rooms1
     /\ userRooms' = leaveUserRooms(room_id, user_id)
     /\ nextId' = nextId + 1
     /\ streams' = broadcastStreams(userStreams, streams, roomUsers,
                                    leaveMessage, NoUser, fail)
     /\ userStreams' = broadcastDir(userStreams, streams, roomUsers, NoUser,
                                    fail)
     /\ lastOp' = [NoOp EXCEPT
                     !.op = "leaveRoom", !.user = user_id, !.room = room_id,
                     !.outcome = "success", !.msgs = <<leaveMessage>>,
                     !.member = user_id \in Members(rooms, room_id),
                     !.failed = Failed(userStreams, streams, roomUsers, NoUser,
                                       fail)]
     /\ UNCHANGED <<messageHistory, userPresence>>

LeaveRoom(room_id, user_id, fail) ==
  /\ chatOps < MaxChatOps
  /\ chatOps' = chatOps + 1
  /\ leaveRoom(room_id, user_id, fail)
  /\ fail = lastOp'.failed
  /\ UNCHANGED <<resilienceVars, lbVars, clientVars>>

RECURSIVE InsertDesc(_, _)
\* x put behind every element of the descending array s that is not older
InsertDesc(s, x) ==
  IF s = <<>> THEN <<x>>
  ELSE IF Head(s).timestamp >= x.timestamp
         THEN <<Head(s)>> \o InsertDesc(Tail(s), x)
         ELSE <<x>> \o s

RECURSIVE SortDesc(_)
\* messages.sort((a, b) => b.timestamp - a.timestamp): newest first, stable
SortDesc(s) ==
  IF s = <<>> THEN <<>>
  ELSE InsertDesc(SortDesc(SubSeq(s, 1, Len(s) - 1)), s[Len(s)])

\* an Array.prototype.reverse that leaves the array as it is
ReverseKept(s) == s

\* Array.prototype.reverse
Reverse(s) == [i \in 1..Len(s) |-> s[Len(s) + 1 - i]]

\* a slice that keeps the last limit elements
SliceTail(s, limit) ==
  SubSeq(s, IF limit < Len(s) THEN Len(s) - limit + 1 ELSE 1, Len(s))

\* Array.prototype.slice(0, limit) for limit >= 0
Slice(s, limit) == SubSeq(s, 1, IF limit < Len(s) THEN limit ELSE Len(s))

\* getHistory(call, callback) for the request {room_id, limit,
\* before_timestamp}; before_timestamp 0 is the field left out
getHistory(room_id, limit, before_timestamp) ==
  LET stored == MapGet(messageHistory, room_id, <<>>)
      filtered == before_timestamp # 0
      older(msg) == msg.timestamp < before_timestamp
      messages == IF filtered THEN SelectSeq(stored, older) ELSE stored
      sorted == SortDesc(messages)
      page == Slice(sorted, limit)
  IN \* sort() orders the array it is called on: the stored one when no
     \* filter() made a copy
     /\ messageHistory' = IF ~filtered /\ room_id \in DOMAIN messageHistory
                            THEN MapSet(messageHistory, room_id, sorted)
                            ELSE messageHistory
     /\ lastOp' = [NoOp EXCEPT
                     !.op = "getHistory", !.room = room_id,
                     !.outcome = "success", !.msgs = Reverse(page),
                     !.limit = limit, !.before = before_timestamp,
                     !.hasMore = (Len(page) = limit)]

GetHistory(room_id, limit, before_timestamp) ==
  /\ chatOps < MaxChatOps
  /\ chatOps' = chatOps + 1
  /\ getHistory(room_id, limit, before_timestamp)
  /\ UNCHANGED <<rooms, userStreams, userRooms, userPresence, streams, nextId>>
  /\ UNCHANGED <<resilienceVars, lbVars, clientVars>>

\* String.prototype.toLowerCase on the presence statuses
toLowerCase(status) ==
  CASE status = "ONLINE" -> "online"
    [] status = "AWAY" -> "away"
    [] status = "OFFLINE" -> "offline"
    [] OTHER -> status

\* an updatePresence that leaves nobody out of its broadcasts
updatePresenceToAll(user_id, status, fail) ==
  LET st == notifyRooms([dir |-> userStreams, strs |-> streams, id |-> nextId,
                         failed |-> {}],
                        MapGet(userRooms, user_id, <<>>), user_id,
                        "User is now " \o toLowerCase(status), NoUser, fail)
  IN /\ userPresence' = MapSet(userPresence, user_id, status)
     /\ streams' = st.strs
     /\ userStreams' = st.dir
     /\ nextId' = st.id
     /\ lastOp' = [NoOp EXCEPT
                     !.op = "updatePresence", !.user = user_id,
                     !.outcome = "success", !.status = status,
                     !.notified = Range(MapGet(userRooms, user_id, <<>>)),
                     !.failed = st.failed]

\* updatePresence(call, callback) for the request {user_id, status}
updatePresence(user_id, status, fail) ==
  LET st == notifyRooms([dir |-> userStreams, strs |-> streams, id |-> nextId,
                         failed |-> {}],
                        MapGet(userRooms, user_id, <<>>), user_id,
                        "User is now " \o toLowerCase(status), user_id, fail)
  IN /\ userPresence' = MapSet(userPresence, user_id, status)
     /\ streams' = st.strs
     /\ userStreams' = st.dir
     /\ nextId' = st.id
     /\ lastOp' = [NoOp EXCEPT
                     !.op = "updatePresence", !.user = user_id,
                     !.outcome = "success", !.status = status,
                     !.notified = Range(MapGet(userRooms, user_id, <<>>)),
                     !.failed = st.failed]

UpdatePresence(user_id, status, fail) ==
  /\ chatOps < MaxChatOps
  /\ chatOps' = chatOps + 1
  /\ updatePresence(user_id, status, fail)
  /\ fail = lastOp'.failed
  /\ UNCHANGED <<rooms, userRooms, messageHistory>>
  /\ UNCHANGED <<resilienceVars, lbVars, clientVars>>

\* the clock advances between two chat operations
ChatTick ==
  /\ ticks < MaxTicks
  /\ ticks' = ticks + 1
  /\ now' = now + 1
  /\ UNCHANGED <<breakerVars, calls, settled, started, retry, runs, lbVars,
                 clientVars, chatVars>>

(* --------------------------- specifications ---------------------------- *)

BreakerInit ==
  /\ CircuitBreakerInit
  /\ calls = [c \in Callers |-> IdleCall]
  /\ settled = <<>>
  /\ started = 0
  /\ ticks = 0
  /\ retry = IdleRetry
  /\ runs = 0
  /\ LoadBalancerInit
  /\ strategy = "round-robin"
  /\ picks = 0
  /\ lastPick = "none"
  /\ evicted = FALSE
  /\ changedSincePick = FALSE
  /\ lastMarked = "none"
  /\ client = IdleClient(0)
  /\ clientCalls = 0
  /\ ChatServiceInit

BreakerNext ==
  \/ \E c \in Callers : Execute(c)
  \/ \E c \in Callers : OperationSucceeds(c)
  \/ \E c \in Callers, code \in BreakerOpErrorCodes : OperationFails(c, code)
  \/ \E d \in {1, resetTimeout} : Tick(d)

SpecBreaker == BreakerInit /\ [][BreakerNext]_vars

RetryNext ==
  \/ \E m \in 0..MaxAttempts, b \in {1, DefaultBaseDelay}, w \in BOOLEAN :
       WithRetry(m, b, w)
  \/ AttemptSucceeds
  \/ \E code \in OpErrorCodes : AttemptFails(code)
  \/ AttemptRejected
  \/ Backoff
  \/ TimerFires

SpecRetry == BreakerInit /\ [][RetryNext]_vars

LBInit ==
  /\ CircuitBreakerInit
  /\ failureThreshold = DefaultFailureThreshold
  /\ resetTimeout = DefaultResetTimeout
  /\ calls = [c \in Callers |-> IdleCall]
  /\ settled = <<>>
  /\ started = 0
  /\ ticks = 0
  /\ retry = IdleRetry
  /\ runs = 0
  /\ LoadBalancerInit
  /\ picks = 0
  /\ lastPick = "none"
  /\ evicted = FALSE
  /\ changedSincePick = FALSE
  /\ lastMarked = "none"
  /\ client = IdleClient(0)
  /\ clientCalls = 0
  /\ ChatServiceInit

LBNext ==
  \/ GetEndpoint
  \/ HealthCheckInterval
  \/ \E e \in Range(endpoints) : ProbeSucceeds(e)
  \/ \E e \in Range(endpoints) : ProbeFails(e)
  \/ \E e \in Range(endpoints) : MarkUnhealthy(e)

SpecLB == LBInit /\ [][LBNext]_vars

ClientInit ==
  /\ CircuitBreakerInit
  /\ failureThreshold = DefaultFailureThreshold
  /\ resetTimeout = DefaultResetTimeout
  /\ calls = [c \in Callers |-> IdleCall]
  /\ settled = <<>>
  /\ started = 0
  /\ ticks = 0
  /\ retry = IdleRetry
  /\ runs = 0
  /\ LoadBalancerInit
  /\ picks = 0
  /\ lastPick = "none"
  /\ evicted = FALSE
  /\ changedSincePick = FALSE
  /\ lastMarked = "none"
  /\ \E m \in 0..MaxAttempts : client = IdleClient(m)
  /\ clientCalls = 0
  /\ ChatServiceInit

ClientNext ==
  \/ ClientCall
  \/ RpcSucceeds
  \/ \E code \in RpcErrorCodes : RpcFails(code)
  \/ \E e \in Range(endpoints) : MarkUnhealthy(e)

SpecClient == ClientInit /\ [][ClientNext]_vars

\* the user each client writes into the user_id of its messages
ClientUser == [c \in Conns |-> IF c = 2 THEN "u2" ELSE "u1"]

\* a message as the client of stream c sends it
ClientMessage(c, room, type) ==
  ChatMessage(ClientId, room, ClientUser[c], type, ClientTimestamp, "text")

ChatInit == LBInit /\ strategy = "round-robin"

ChatNext ==
  \/ \E c \in Conns, r \in RoomIds, t \in MessageTypes, fail \in SUBSET Conns :
       StreamData(c, ClientMessage(c, r, t), fail)
  \/ \E c \in Conns, fail \in SUBSET Conns : StreamEnd(c, fail)
  \/ \E c \in Conns, fail \in SUBSET Conns : StreamError(c, fail)
  \/ \E c \in Conns, fail \in SUBSET Conns : StreamCancelled(c, fail)
  \/ \E r \in RoomIds, u \in UserIds, fail \in SUBSET Conns :
       JoinRoom(r, u, fail)
  \/ \E r \in RoomIds, u \in UserIds, fail \in SUBSET Conns :
       LeaveRoom(r, u, fail)

SpecChat == ChatInit /\ [][ChatNext]_vars

HistoryNext ==
  \/ \E r \in RoomIds, t \in MessageTypes :
       StreamData(1, ClientMessage(1, r, t), {})
  \/ \E r \in RoomIds, u \in UserIds : JoinRoom(r, u, {})
  \/ \E r \in RoomIds, u \in UserIds : LeaveRoom(r, u, {})
  \/ \E r \in RoomIds, limit \in (0..MaxLimit) \cup {DefaultLimit},
        before \in {0, MaxTicks} : GetHistory(r, limit, before)
  \/ ChatTick

SpecHistory == ChatInit /\ [][HistoryNext]_vars

PresenceNext ==
  \/ \E c \in Conns, r \in RoomIds, t \in MessageTypes, fail \in SUBSET Conns :
       StreamData(c, ClientMessage(c, r, t), fail)
  \/ \E r \in RoomIds, u \in UserIds, fail \in SUBSET Conns :
       JoinRoom(r, u, fail)
  \/ \E r \in RoomIds, u \in UserIds, fail \in SUBSET Conns :
       LeaveRoom(r, u, fail)
  \/ \E u \in UserIds, status \in PresenceStatuses, fail \in SUBSET Conns :
       UpdatePresence(u, status, fail)

SpecPresence == ChatInit /\ [][PresenceNext]_vars

\* a message with any user_id, or none, in it
AnyMessage(room, user, type) ==
  ChatMessage(ClientId, room, user, type, ClientTimestamp, "text")

IdentityNext ==
  \/ \E c \in Conns, r \in RoomIds, u \in UserIds \cup {NoUser},
        t \in {"TEXT", "SYSTEM"} : StreamData(c, AnyMessage(r, u, t), {})
  \/ \E c \in Conns : StreamEnd(c, {})
  \/ \E c \in Conns : StreamError(c, {})
  \/ \E c \in Conns : StreamCancelled(c, {})
  \/ \E r \in RoomIds, u \in UserIds : JoinRoom(r, u, {})

SpecIdentity == ChatInit /\ [][IdentityNext]_vars

\* the gateway's breaker of one service, and no call made yet
GatewayInit ==
  /\ failureThreshold = OrDefault(GatewayFailureThreshold, DefaultFailureThreshold)
  /\ resetTimeout = OrDefault(GatewayResetTimeout, DefaultResetTimeout)
  /\ state = "CLOSED"
  /\ failures = 0
  /\ now = 0
  /\ nextAttempt = now
  /\ calls = [c \in Callers |-> IdleCall]
  /\ settled = <<>>
  /\ started = 0
  /\ ticks = 0
  /\ retry = IdleRetry
  /\ runs = 0
  /\ LoadBalancerInit
  /\ strategy = "round-robin"
  /\ picks = 0
  /\ lastPick = "none"
  /\ evicted = FALSE
  /\ changedSincePick = FALSE
  /\ lastMarked = "none"
  /\ client = IdleClient(0)
  /\ clientCalls = 0
  /\ ChatServiceInit

\* the failures of client.call(): a transient and a non-transient one
GatewayErrorCodes == {UNAVAILABLE, INVALID_ARGUMENT}

\* one request handler after the other makes a call
GatewayNext ==
  \/ GatewayExecute(1)
  \/ GatewayAttemptSucceeds(1)
  \/ \E code \in GatewayErrorCodes : GatewayAttemptFails(1, code)
  \/ Backoff
  \/ TimerFires
  \/ \E d \in {1, resetTimeout} : Tick(d)

SpecGateway == GatewayInit /\ [][GatewayNext]_vars

(* ------------------------- CircuitBreaker claims ----------------------- *)

\* caller c makes an execute() call in this step
Calls(c) == started' = started + 1 /\ calls'[c].id = started'

\* the operations in flight that were invoked as trials
TrialsInFlight ==
  {c \in Callers : calls[c].pc = "running" /\ calls[c].admittedIn # "CLOSED"}

\* C1: two trial operations are never in flight at the same time, and an
\* execute() call arriving while the breaker is HALF_OPEN with its trial still
\* in flight is rejected without invoking its operation.
C1_SingleTrialInFlight ==
  /\ [](Cardinality(TrialsInFlight) <= 1)
  /\ [][\A c \in Callers :
         (Calls(c) /\ state = "HALF_OPEN" /\ TrialsInFlight # {})
           => (calls'[c].pc = "thrown" /\ ~calls'[c].invoked)]_vars

RECURSIVE TrailingFailures(_)
\* number of failed operations since the last successful one
TrailingFailures(log) ==
  IF log = <<>> \/ log[Len(log)] = "ok" THEN 0
  ELSE 1 + TrailingFailures(SubSeq(log, 1, Len(log) - 1))

\* C2: the breaker is CLOSED exactly while fewer than failureThreshold
\* operations have failed since the last success; it leaves CLOSED only for
\* OPEN, at the failureThreshold-th such failure, with nextAttempt set to
\* now + resetTimeout; and an execute() call made while CLOSED invokes its
\* operation.
C2_TripsAtThreshold ==
  /\ [](state = "CLOSED" <=> TrailingFailures(settled) < failureThreshold)
  /\ [][(state = "CLOSED" /\ state' # "CLOSED")
          => /\ state' = "OPEN"
             /\ TrailingFailures(settled') = failureThreshold
             /\ nextAttempt' = now + resetTimeout]_vars
  /\ [][\A c \in Callers :
         (Calls(c) /\ state = "CLOSED")
           => (calls'[c].pc = "running" /\ calls'[c].invoked)]_vars

\* C2 witness: the breaker tripped at the second of two failures with a
\* success before them
C2_Witness ==
  /\ state = "OPEN"
  /\ failureThreshold = 2
  /\ settled = <<"ok", "err", "err">>
  /\ nextAttempt = now + resetTimeout

\* C3: an execute() call made while OPEN with now < nextAttempt throws the
\* circuit-open error, does not invoke its operation and leaves state,
\* failures and nextAttempt unchanged.
C3_OpenRejects ==
  [][\A c \in Callers :
       (Calls(c) /\ state = "OPEN" /\ now < nextAttempt)
         => /\ calls'[c].pc = "thrown"
            /\ calls'[c].error = CircuitOpenError
            /\ ~calls'[c].invoked
            /\ UNCHANGED <<state, failures, nextAttempt>>]_vars

\* C3 witness: a call was rejected by the OPEN breaker one tick before
\* nextAttempt
C3_Witness ==
  /\ state = "OPEN"
  /\ now + 1 = nextAttempt
  /\ \E c \in Callers :
       /\ calls[c].pc = "thrown"
       /\ calls[c].error = CircuitOpenError
       /\ calls[c].id = started

\* C4: an execute() call made while OPEN with now >= nextAttempt is admitted
\* as a trial (HALF_OPEN, operation invoked); when that trial succeeds the
\* breaker is CLOSED with failures 0, when it fails the breaker is OPEN with
\* nextAttempt = (time of the failure) + resetTimeout.
C4_TrialOutcome ==
  /\ [][\A c \in Callers :
         (Calls(c) /\ state = "OPEN" /\ now >= nextAttempt)
           => /\ state' = "HALF_OPEN"
              /\ calls'[c].pc = "running"
              /\ calls'[c].invoked]_vars
  /\ [][\A c \in Callers :
         (calls[c].pc = "running" /\ calls[c].admittedIn = "OPEN")
           => /\ calls'[c].pc = "returned" => (state' = "CLOSED" /\ failures' = 0)
              /\ calls'[c].pc = "thrown"
                   => (state' = "OPEN" /\ nextAttempt' = now + resetTimeout)]_vars

(* ---------------------------- withRetry claims ------------------------- *)

\* the attempts of the current withRetry() call that have settled
Attempts == 1..Len(retry.outcomes)

\* attempt i failed and withRetry threw its error at once: i is the last
\* attempt, no timer was set after it and the operation was not called again
PropagatedAt(i) ==
  /\ i = Len(retry.outcomes)
  /\ retry.pc = "thrown"
  /\ retry.error = retry.outcomes[i].error
  /\ retry.thrownOf = i
  /\ retry.invoked = i
  /\ Len(retry.delays) = i - 1

\* C5: a circuit-open rejection of breaker.execute(op) is never retried by
\* withRetry: it is propagated at once, so against an OPEN breaker there is a
\* single attempt and no backoff delay.
C5_CircuitOpenNotRetried ==
  \A i \in Attempts :
    retry.outcomes[i].error = CircuitOpenError => PropagatedAt(i)

\* the failure classes the specification calls transient
TransientCodes == {UNAVAILABLE, DEADLINE_EXCEEDED, RESOURCE_EXHAUSTED}

\* C6: a failed attempt whose error has a non-transient code, or no code,
\* is propagated at once, on whichever attempt it happens: no backoff delay
\* and no further invocation of the operation.
C6_OnlyTransientRetried ==
  \A i \in Attempts :
    (~retry.outcomes[i].ok /\ retry.outcomes[i].error.code \notin TransientCodes)
      => PropagatedAt(i)

\* C6 witness: INVALID_ARGUMENT on the second of three allowed attempts
C6_Witness ==
  /\ retry.maxRetries = 3
  /\ retry.pc = "thrown"
  /\ Len(retry.outcomes) = 2
  /\ retry.outcomes[1].error.code = UNAVAILABLE
  /\ retry.outcomes[2].error.code = INVALID_ARGUMENT

\* every settled attempt failed with a transient failure
AllTransientFailures ==
  \A i \in Attempts :
    ~retry.outcomes[i].ok /\ retry.outcomes[i].error.code \in TransientCodes

C8_BackoffDelays ==
  /\ \A n \in 2..(Len(retry.delays) + 1) :
       retry.delays[n - 1] = retry.baseDelay * 2^(n - 2)
  /\ retry.pc = "awaiting"
       => /\ Len(retry.delays) = retry.attempt - 1
          /\ retry.attempt >= 2 => now >= retry.dueAt
  /\ (retry.maxRetries = 3 /\ retry.baseDelay = 1000 /\ retry.pc = "thrown"
        /\ Len(retry.outcomes) = 3)
       => retry.delays = <<1000, 2000>>

\* C8 witness: maxRetries 3 and baseDelay 1000, all three attempts failed
C8_Witness ==
  /\ retry.maxRetries = 3
  /\ retry.baseDelay = 1000
  /\ retry.pc = "thrown"
  /\ retry.delays = <<1000, 2000>>
  /\ now >= 3000

(* --------------------------- LoadBalancer claims ----------------------- *)

\* C9: under every strategy a getEndpoint() call returns an endpoint that is
\* in the healthy set at the time of the call, and throws the no-healthy-
\* endpoints error exactly when that set is empty.
C9_PicksHealthy ==
  [][picks' = picks + 1
       => IF healthyEndpoints = <<>>
            THEN lastPick' = "No healthy endpoints available"
            ELSE lastPick' \in Range(healthyEndpoints)]_vars

\* C9 witness: getEndpoint() threw after every endpoint had been evicted
C9_Witness ==
  /\ healthyEndpoints = <<>>
  /\ lastPick = "No healthy endpoints available"
  /\ picks >= 2

\* C10: round-robin over [A,B,C] with no endpoint ever removed from the
\* healthy set: the k-th getEndpoint() call (k = 0,1,2,...) returns the
\* endpoint at position k mod 3.
C10_RoundRobinOrder ==
  (strategy = "round-robin" /\ ~evicted /\ picks >= 1)
    => lastPick = <<"A", "B", "C">>[((picks - 1) % 3) + 1]

\* C10 witness: the fifth call (k = 4) returned B
C10_Witness ==
  /\ strategy = "round-robin"
  /\ ~evicted
  /\ picks = 5
  /\ lastPick = "B"

\* C11: round-robin while the healthy set is {A, C} (B evicted, not yet
\* recovered): getEndpoint() returns A or C, never B, and two successive calls
\* with no health change between them never return the same endpoint.
C11_AlternatesWithoutB ==
  [][(picks' = picks + 1 /\ strategy = "round-robin"
        /\ Range(healthyEndpoints) = {"A", "C"})
       => /\ lastPick' \in {"A", "C"}
          /\ (picks >= 1 /\ ~changedSincePick) => lastPick' # lastPick]_vars

\* C11 witness: B was evicted with the cursor at 1 and two calls followed
C11_Witness ==
  /\ strategy = "round-robin"
  /\ healthyEndpoints = <<"A", "C">>
  /\ ~changedSincePick
  /\ picks = 3
  /\ currentIndex = 3
  /\ lastPick = "A"

\* C12: right after markUnhealthy(e), e is not in the healthy set; an
\* endpoint enters the healthy set only in the step that completes a
\* successful probe of it; getEndpoint() leaves the healthy set unchanged.
C12_HealthMutators ==
  /\ [](lastMarked # "none" => lastMarked \notin Range(healthyEndpoints))
  /\ [][\A e \in Range(endpoints) :
         (e \notin Range(healthyEndpoints) /\ e \in Range(healthyEndpoints'))
           => /\ e \in probing
              /\ e \notin probing'
              /\ lastHealthCheck'[e] = "healthy"]_vars
  /\ [][picks' = picks + 1 => healthyEndpoints' = healthyEndpoints]_vars

\* C12 witness: markUnhealthy(B) just removed B, after C had been evicted and
\* brought back by a probe
C12_Witness ==
  /\ lastMarked = "B"
  /\ healthyEndpoints = <<"A", "C">>
  /\ lastHealthCheck["C"] = "healthy"
  /\ evicted
  /\ picks >= 1

(* --------------------- LoadBalancedGrpcClient claims ------------------- *)

\* the RPC in flight fails with UNAVAILABLE in this step
FailsUnavailable ==
  /\ client.pc = "awaiting"
  /\ Len(client'.attempts) = Len(client.attempts) + 1
  /\ client'.attempts[Len(client'.attempts)].code = UNAVAILABLE

\* C13: when an attempt fails with UNAVAILABLE its endpoint leaves the
\* healthy set and, if attempts and healthy endpoints remain, the call goes on
\* with an endpoint of the remaining healthy set; call() makes at most
\* maxRetries attempts and throws nothing but the error of its last attempt.
C13_Failover ==
  /\ [][FailsUnavailable
          => /\ client.endpoint \notin Range(healthyEndpoints')
             /\ (Len(client'.attempts) < client.maxRetries
                   /\ healthyEndpoints' # <<>>)
                  => /\ client'.pc = "awaiting"
                     /\ client'.endpoint \in Range(healthyEndpoints')]_vars
  /\ [](Len(client.attempts) <= client.maxRetries)
  /\ [](client.pc = "thrown" => client.error = client.lastError)

(* --------------------------- ChatService claims ------------------------ *)

\* this step is the chat operation op
ChatOp(op) == chatOps' = chatOps + 1 /\ lastOp'.op = op

\* C14: membership reflects the net effect of the joinRoom/leaveRoom calls
\* of a (room, user) pair: no member set ever holds a user twice, after a
\* joinRoom the user is a member and a joinRoom of a member changes no member
\* set, after a leaveRoom the user is no member and a leaveRoom of a user who
\* is no member (or of a room that does not exist) changes no member set.
C14_MembershipNetEffect ==
  /\ [](\A r \in DOMAIN rooms : Cardinality(Range(rooms[r])) = Len(rooms[r]))
  /\ [][ChatOp("joinRoom")
         => /\ lastOp'.user \in Members(rooms', lastOp'.room)
            /\ lastOp'.member => rooms' = rooms]_vars
  /\ [][ChatOp("leaveRoom")
         => /\ lastOp'.user \notin Members(rooms', lastOp'.room)
            /\ ~lastOp'.member => rooms' = rooms]_vars

\* joinRoom was called for a user who was the member of the room already
C14_Witness ==
  /\ lastOp.op = "joinRoom"
  /\ lastOp.member
  /\ rooms[lastOp.room] = <<lastOp.user>>

\* C15: when a leaveRoom empties a room, the room leaves the registry
\* together with its message history, so that a getHistory for that room id
\* answers an empty list until a message is stored for it again.
C15_HistoryDroppedWithRoom ==
  /\ [][(ChatOp("leaveRoom") /\ lastOp'.room \in DOMAIN rooms
                             /\ lastOp'.room \notin DOMAIN rooms')
         => MapGet(messageHistory', lastOp'.room, <<>>) = <<>>]_vars
  /\ [][(ChatOp("getHistory")
           /\ MapGet(messageHistory, lastOp'.room, <<>>) = <<>>)
         => lastOp'.msgs = <<>>]_vars

\* C16: a TEXT/IMAGE/FILE message on a bound stream is accepted (stored and
\* fanned out) exactly when the user of the stream is a member of
\* message.room_id in the room registry at the time the message is processed,
\* rooms joined or left after the binding included; otherwise it fails with
\* "User not in room" and the stream is destroyed.
C16_AcceptedIffMember ==
  (lastOp.op = "data" /\ lastOp.type \in {"TEXT", "IMAGE", "FILE"}
                      /\ lastOp.user # NoUser)
    => /\ (lastOp.outcome = "accepted") <=> lastOp.member
       /\ lastOp.outcome # "accepted"
            => /\ lastOp.outcome = "User not in room"
               /\ streams[lastOp.conn].destroyed

\* the timestamps of the messages of s never go down
Chronological(s) ==
  \A i \in 1..Len(s), j \in 1..Len(s) :
    i < j => s[i].timestamp <= s[j].timestamp

\* C17: an accepted TEXT message is appended to the history of its room under
\* an id and a timestamp the server assigned in place of the client's, a
\* following getHistory of the room with no beforeTimestamp and a limit of at
\* least the number of stored messages returns every stored message, and the
\* messages getHistory returns are in non-decreasing timestamp order.
C17_RoundTrip ==
  /\ [][(ChatOp("data") /\ lastOp'.type = "TEXT"
                        /\ lastOp'.outcome = "accepted")
         => LET before == MapGet(messageHistory, lastOp'.room, <<>>)
                after == messageHistory'[lastOp'.room]
                stored == after[Len(after)]
            IN /\ after = Append(before, stored)
               /\ stored.type = "TEXT"
               /\ stored.id = nextId' /\ nextId' > nextId
               /\ stored.id # ClientId
               /\ stored.timestamp = now
               /\ stored.timestamp # ClientTimestamp]_vars
  /\ [][ChatOp("getHistory")
         => LET stored == MapGet(messageHistory, lastOp'.room, <<>>)
            IN /\ Chronological(lastOp'.msgs)
               /\ (lastOp'.before = 0 /\ lastOp'.limit >= Len(stored))
                    => /\ Len(lastOp'.msgs) = Len(stored)
                       /\ Range(lastOp'.msgs) = Range(stored)]_vars

\* getHistory returned two stored messages of different timestamps, a TEXT
\* message among them
C17_Witness ==
  /\ lastOp.op = "getHistory"
  /\ lastOp.before = 0
  /\ Len(lastOp.msgs) = 2
  /\ lastOp.msgs[1].timestamp < lastOp.msgs[2].timestamp
  /\ \E i \in 1..2 : lastOp.msgs[i].type = "TEXT"
  /\ Range(lastOp.msgs) = Range(messageHistory[lastOp.room])

\* C18: in every reachable state no stored history holds a message of type
\* TYPING, and no getHistory answer holds one.
C18_TypingNeverStored ==
  /\ \A r \in DOMAIN messageHistory :
       \A i \in 1..Len(messageHistory[r]) :
         messageHistory[r][i].type # "TYPING"
  /\ lastOp.op = "getHistory"
       => \A i \in 1..Len(lastOp.msgs) : lastOp.msgs[i].type # "TYPING"

\* a TYPING message of a member was fanned out in a room that has stored
\* messages
C18_Witness ==
  /\ lastOp.op = "data"
  /\ lastOp.type = "TYPING"
  /\ lastOp.outcome = "accepted"
  /\ MapGet(messageHistory, lastOp.room, <<>>) # <<>>

\* the rooms of the registry rms that list user u as a member
RoomsOf(rms, u) == {r \in DOMAIN rms : u \in Range(rms[r])}

\* C19: when a bound stream is closed by end, error or cancelled, then
\* afterwards the directory holds no entry for that stream, the presence of
\* its user is OFFLINE, and a SYSTEM "left" message has been fanned out to
\* every room the user is a member of at that time, rooms joined after the
\* binding included.
C19_DisconnectCleanup ==
  [][\A ev \in {"end", "error", "cancelled"} :
      (ChatOp(ev) /\ lastOp'.user # NoUser)
        => /\ \A u \in DOMAIN userStreams' : userStreams'[u] # lastOp'.conn
           /\ userPresence'[lastOp'.user] = "OFFLINE"
           /\ RoomsOf(rooms, lastOp'.user) \subseteq lastOp'.notified]_vars

\* this step is an operation that makes one broadcastToRoom() call
Broadcasts ==
  \/ ChatOp("joinRoom")
  \/ ChatOp("leaveRoom")
  \/ ChatOp("data") /\ lastOp'.outcome = "accepted"

\* the directory as the broadcast of this step finds it: the first message of
\* a stream registers the stream before it is dispatched
DirectoryAtBroadcast ==
  IF lastOp'.op = "data" /\ streams[lastOp'.conn].userId = NoUser
    THEN MapSet(userStreams, lastOp'.user, lastOp'.conn)
    ELSE userStreams

\* the user the broadcast of this step leaves out
ExcludedAtBroadcast ==
  IF lastOp'.op = "data" /\ lastOp'.type = "TYPING"
    THEN lastOp'.msgs[1].user_id ELSE NoUser

\* C20: a broadcastToRoom() call writes the message to the live stream of
\* every member of the room (other than the user its caller excludes); a
\* member with no stream or a destroyed stream is skipped, a write that throws
\* evicts that stream, and only that one, from the directory, and every other
\* member with a live stream still receives the message.
C20_BroadcastFaultIsolation ==
  [][Broadcasts =>
      LET dir == DirectoryAtBroadcast
          message == lastOp'.msgs[1]
          addressed == Members(rooms', lastOp'.room) \ {ExcludedAtBroadcast}
          live == {u \in addressed \cap DOMAIN dir : ~streams[dir[u]].destroyed}
          thrown == {u \in live : dir[u] \in lastOp'.failed}
      IN /\ \A u \in live \ thrown :
              /\ streams'[dir[u]].received =
                   Append(streams[dir[u]].received, message)
              /\ u \in DOMAIN userStreams' /\ userStreams'[u] = dir[u]
         /\ \A u \in thrown :
              /\ u \notin DOMAIN userStreams'
              /\ streams'[dir[u]].received = streams[dir[u]].received
         /\ \A u \in (DOMAIN dir) \ live :
              /\ u \in DOMAIN userStreams' /\ userStreams'[u] = dir[u]
              /\ streams'[dir[u]].received = streams[dir[u]].received
         /\ DOMAIN userStreams' = (DOMAIN dir) \ thrown]_vars

\* a broadcast in which the write to one member's stream threw and another
\* member's stream received the message
C20_Witness ==
  /\ lastOp.op \in {"joinRoom", "leaveRoom", "data"}
  /\ lastOp.failed # {}
  /\ \E c \in Conns \ lastOp.failed :
       /\ streams[c].received # <<>>
       /\ streams[c].received[Len(streams[c].received)] = lastOp.msgs[1]
       /\ streams[c].userId \in Members(rooms, lastOp.room)

\* the messages of s are in the order the server processed them: uuidv4() is
\* drawn once per processed message, so the ids number the processing order
InProcessingOrder(s) ==
  \A i \in 1..Len(s), j \in 1..Len(s) : i < j => s[i].id < s[j].id

\* the stored messages of room r among those written to stream c
ReceivedStored(c, r) ==
  SelectSeq(streams[c].received,
            LAMBDA msg : msg \in Range(MapGet(messageHistory, r, <<>>)))

\* C21: of two stored messages of a room, the one the server processed first
\* comes first in the stored history of the room, and every stream that
\* received both received it first.
C21_RoomOrdering ==
  /\ \A r \in DOMAIN messageHistory : InProcessingOrder(messageHistory[r])
  /\ \A c \in Conns, r \in RoomIds : InProcessingOrder(ReceivedStored(c, r))

\* C22: getHistory(room, limit, beforeTimestamp) answers, in ascending
\* timestamp order, the limit newest stored messages among those with a
\* timestamp strictly below beforeTimestamp (among all stored messages when
\* beforeTimestamp is absent), or all of these when fewer than limit qualify,
\* and has_more is true exactly when the number of returned messages is limit.
C22_HistoryPage ==
  [][ChatOp("getHistory") =>
      LET stored == MapGet(messageHistory, lastOp'.room, <<>>)
          qualifying ==
            IF lastOp'.before = 0 THEN Range(stored)
            ELSE {msg \in Range(stored) : msg.timestamp < lastOp'.before}
          count == IF lastOp'.limit < Cardinality(qualifying)
                     THEN lastOp'.limit ELSE Cardinality(qualifying)
          page == lastOp'.msgs
      IN /\ Chronological(page)
         /\ Len(page) = count
         /\ Cardinality(Range(page)) = count
         /\ Range(page) \subseteq qualifying
         /\ \A old \in qualifying \ Range(page), new \in Range(page) :
              old.timestamp <= new.timestamp
         /\ lastOp'.hasMore <=> (Len(page) = lastOp'.limit)]_vars

\* getHistory returned the newest one of two qualifying messages under limit 1
C22_Witness ==
  /\ lastOp.op = "getHistory"
  /\ lastOp.limit = 1
  /\ lastOp.hasMore
  /\ Len(lastOp.msgs) = 1
  /\ \E msg \in Range(messageHistory[lastOp.room]) :
       msg.timestamp < lastOp.msgs[1].timestamp

\* the users of the registry rms and directory dir whose stream is live
LiveMembers(rms, room, dir, strs) ==
  {u \in Members(rms, room) \cap DOMAIN dir : ~strs[dir[u]].destroyed}

\* C23: after joinRoom(room, user) the user is a member of the room (created
\* if it did not exist), the presence of the user is ONLINE, the participants
\* list returned is the member set after the add, and a SYSTEM "joined"
\* message is written to the live stream of every member, the joiner included.
C23_JoinRoom ==
  [][ChatOp("joinRoom") =>
      LET room == lastOp'.room
          user == lastOp'.user
          joinMessage == lastOp'.msgs[1]
      IN /\ room \in DOMAIN rooms'
         /\ user \in Members(rooms', room)
         /\ Members(rooms', room) = Members(rooms, room) \cup {user}
         /\ userPresence'[user] = "ONLINE"
         /\ lastOp'.outcome = "success"
         /\ Range(lastOp'.participants) = Members(rooms', room)
         /\ Len(lastOp'.participants) = Cardinality(Members(rooms', room))
         /\ joinMessage.type = "SYSTEM"
         /\ joinMessage.room_id = room /\ joinMessage.user_id = user
         /\ \A u \in LiveMembers(rooms', room, userStreams, streams) :
              userStreams[u] \notin lastOp'.failed
                => streams'[userStreams[u]].received =
                     Append(streams[userStreams[u]].received, joinMessage)]_vars

\* a user with a live stream joined a room that had a member, and the stream
\* of the joiner received the "joined" message
C23_Witness ==
  /\ lastOp.op = "joinRoom"
  /\ ~lastOp.member
  /\ Len(lastOp.participants) = 2
  /\ lastOp.user \in DOMAIN userStreams
  /\ LET received == streams[userStreams[lastOp.user]].received
     IN received # <<>> /\ received[Len(received)] = lastOp.msgs[1]

\* C24: the SYSTEM "left" message of leaveRoom(room, user) is delivered only
\* to the members that remain after the removal: their live streams receive
\* it, no stream of the leaving user receives it, and when the leaver was the
\* last member no stream receives it.
C24_LeaveRoom ==
  [][ChatOp("leaveRoom") =>
      LET room == lastOp'.room
          user == lastOp'.user
          leaveMessage == lastOp'.msgs[1]
          remaining == Members(rooms', room)
      IN /\ remaining = Members(rooms, room) \ {user}
         /\ \A u \in LiveMembers(rooms', room, userStreams, streams) :
              userStreams[u] \notin lastOp'.failed
                => streams'[userStreams[u]].received =
                     Append(streams[userStreams[u]].received, leaveMessage)
         /\ \A c \in Conns :
              streams'[c].received # streams[c].received
                => streams[c].userId \in remaining
         /\ \A c \in Conns :
              streams[c].userId = user
                => streams'[c].received = streams[c].received
         /\ remaining = {}
              => \A c \in Conns : streams'[c].received = streams[c].received]_vars

\* a member left a room and the live stream of a member that remains
\* received the "left" message
C24_Witness ==
  /\ lastOp.op = "leaveRoom"
  /\ lastOp.member
  /\ \E c \in Conns :
       /\ streams[c].userId \in Members(rooms, lastOp.room)
       /\ streams[c].received # <<>>
       /\ streams[c].received[Len(streams[c].received)] = lastOp.msgs[1]

\* the messages written to stream c in this step
Written(c) ==
  SubSeq(streams'[c].received, Len(streams[c].received) + 1,
         Len(streams'[c].received))

\* C25: updatePresence(user, status) makes the stored presence of the user
\* status, writes a SYSTEM presence message to the live streams of the other
\* members of every room the user belongs to, writes nothing to a stream of
\* the user, and changes no room membership.
C25_UpdatePresence ==
  [][ChatOp("updatePresence") =>
      LET user == lastOp'.user
          shared(u) == RoomsOf(rooms, user) \cap RoomsOf(rooms, u)
      IN /\ userPresence'[user] = lastOp'.status
         /\ rooms' = rooms /\ userRooms' = userRooms
         /\ lastOp'.notified = RoomsOf(rooms, user)
         /\ \A c \in Conns :
              /\ streams'[c].received = streams[c].received \o Written(c)
              /\ \A i \in 1..Len(Written(c)) :
                   /\ Written(c)[i].type = "SYSTEM"
                   /\ Written(c)[i].user_id = user
                   /\ Written(c)[i].room_id \in shared(streams[c].userId)
              /\ streams[c].userId = user => Written(c) = <<>>
         /\ \A u \in (DOMAIN userStreams) \ {user} :
              (~streams[userStreams[u]].destroyed
                 /\ userStreams[u] \notin lastOp'.failed)
                => /\ {Written(userStreams[u])[i].room_id :
                        i \in 1..Len(Written(userStreams[u]))} = shared(u)
                   /\ Len(Written(userStreams[u])) = Cardinality(shared(u))]_vars

\* the presence of a member was updated and the live stream of another member
\* of its room received the presence message
C25_Witness ==
  /\ lastOp.op = "updatePresence"
  /\ lastOp.notified # {}
  /\ userPresence[lastOp.user] = lastOp.status
  /\ \E c \in Conns :
       /\ streams[c].userId \notin {NoUser, lastOp.user}
       /\ streams[c].received # <<>>
       /\ LET last == streams[c].received[Len(streams[c].received)]
          IN /\ last.content = "User is now " \o toLowerCase(lastOp.status)
             /\ last.user_id = lastOp.user

\* C26: the first message of a stream binds the stream to the user_id of the
\* message, else to the 'user-id' metadata of the stream; when neither gives
\* a user id the stream is destroyed with "User ID required", nothing is
\* registered in the directory and the message is not dispatched; otherwise
\* the stream is in the directory under that user id before the message is
\* dispatched, so that a fan-out to a room of the user reaches the stream.
C26_Binding ==
  [][(ChatOp("data") /\ streams[lastOp'.conn].userId = NoUser) =>
      LET c == lastOp'.conn
          userId == IF lastOp'.sender # NoUser THEN lastOp'.sender
                    ELSE StreamMetadata[c]
      IN IF userId = NoUser
           THEN /\ lastOp'.outcome = "User ID required"
                /\ streams'[c].destroyed
                /\ streams'[c].userId = NoUser
                /\ userStreams' = userStreams
                /\ messageHistory' = messageHistory
                /\ nextId' = nextId
                /\ \A d \in Conns : streams'[d].received = streams[d].received
           ELSE /\ lastOp'.outcome # "User ID required"
                /\ streams'[c].userId = userId
                /\ lastOp'.user = userId
                /\ c \notin lastOp'.failed
                     => userId \in DOMAIN userStreams' /\ userStreams'[userId] = c
                /\ (lastOp'.outcome = "accepted" /\ lastOp'.type # "TYPING"
                      /\ userId \in Members(rooms, lastOp'.room)
                      /\ c \notin lastOp'.failed)
                     => streams'[c].received =
                          Append(streams[c].received, lastOp'.msgs[1])]_vars

\* a stream without user id in message and metadata was destroyed, and
\* another stream was bound by its metadata and received the message it sent
C26_Witness ==
  /\ lastOp.op = "data"
  /\ lastOp.sender = NoUser
  /\ lastOp.user = StreamMetadata[lastOp.conn]
  /\ lastOp.outcome = "accepted"
  /\ userStreams[lastOp.user] = lastOp.conn
  /\ streams[lastOp.conn].received = <<lastOp.msgs[1]>>
  /\ \E c \in Conns : streams[c].destroyed /\ streams[c].userId = NoUser

\* C27: a TYPING message on a bound stream whose user is a member of the room
\* is written to the live streams of all other members and never to the
\* sending stream; when the user is no member it is dropped without error,
\* the stream stays open and nothing is delivered.
C27_TypingDispatch ==
  [][(ChatOp("data") /\ lastOp'.type = "TYPING" /\ lastOp'.user # NoUser) =>
      LET c == lastOp'.conn
          others == LiveMembers(rooms, lastOp'.room, userStreams', streams)
                      \ {lastOp'.user}
      IN /\ ~streams'[c].destroyed
         /\ streams'[c].received = streams[c].received
         /\ messageHistory' = messageHistory
         /\ IF lastOp'.member
              THEN /\ lastOp'.outcome = "accepted"
                   /\ \A u \in others :
                        streams'[userStreams'[u]].received =
                          Append(streams[userStreams'[u]].received,
                                 lastOp'.msgs[1])
              ELSE /\ lastOp'.outcome = "ignored"
                   /\ \A d \in Conns :
                        streams'[d].received = streams[d].received]_vars

\* C28: a content message rejected with "User not in room" changes no shared
\* chat state: the room registry, every history, the directory entry and the
\* presence of every other user are as before, no stream receives the
\* message, and only the offending stream is destroyed.
C28_RejectionFrame ==
  [][(ChatOp("data") /\ lastOp'.outcome = "User not in room") =>
      LET c == lastOp'.conn
          others == (DOMAIN userStreams) \ {lastOp'.user}
      IN /\ rooms' = rooms /\ userRooms' = userRooms
         /\ messageHistory' = messageHistory
         /\ userPresence' = userPresence
         /\ (DOMAIN userStreams') \ {lastOp'.user} = others
         /\ \A u \in others : userStreams'[u] = userStreams[u]
         /\ \A d \in Conns : streams'[d].received = streams[d].received
         /\ \A d \in Conns \ {c} : streams'[d] = streams[d]
         /\ streams'[c].destroyed]_vars

\* a content message was rejected and its stream destroyed while the stream
\* of another user is bound and live
C28_Witness ==
  /\ lastOp.op = "data"
  /\ lastOp.outcome = "User not in room"
  /\ streams[lastOp.conn].destroyed
  /\ \E u \in (DOMAIN userStreams) \ {lastOp.user} :
       ~streams[userStreams[u]].destroyed

\* C29: the close of a stream removes its user from no member set, a stream
\* is bound with exactly the rooms the registry lists its user in at that
\* time, and a content message to a room the stream was bound with is
\* accepted, with no new joinRoom.
C29_Rejoin ==
  /\ [][\A ev \in {"end", "error", "cancelled"} :
         ChatOp(ev) => rooms' = rooms /\ userRooms' = userRooms]_vars
  /\ [][(ChatOp("data") /\ streams[lastOp'.conn].userId = NoUser
                        /\ lastOp'.user # NoUser)
         => Range(streams'[lastOp'.conn].currentRooms)
              = RoomsOf(rooms, lastOp'.user)]_vars
  /\ [][(ChatOp("data") /\ lastOp'.type = "TEXT"
                        /\ lastOp'.room
                             \in Range(streams'[lastOp'.conn].currentRooms))
         => /\ lastOp'.outcome = "accepted"
            /\ messageHistory'[lastOp'.room]
                 = Append(MapGet(messageHistory, lastOp'.room, <<>>),
                          lastOp'.msgs[1])]_vars

\* a user whose earlier stream was closed sent a TEXT message as the first
\* message of another stream, and it was accepted
C29_Witness ==
  /\ lastOp.op = "data"
  /\ lastOp.type = "TEXT"
  /\ lastOp.outcome = "accepted"
  /\ streams[lastOp.conn].received = <<lastOp.msgs[1]>>
  /\ \E d \in Conns \ {lastOp.conn} :
       /\ streams[d].userId = lastOp.user
       /\ streams[d].events # {}

\* C30: a SYSTEM message a client sends on a bound stream is given an id and
\* a timestamp by the server, appended to the history of message.room_id and
\* fanned out to the live streams of all members of that room, the sender
\* included, whether or not the sender is a member.
C30_ClientSystemMessage ==
  [][(ChatOp("data") /\ lastOp'.type = "SYSTEM" /\ lastOp'.user # NoUser) =>
      LET room == lastOp'.room
          stored == lastOp'.msgs[1]
          dir == DirectoryAtBroadcast
      IN /\ lastOp'.outcome = "accepted"
         /\ stored.id = nextId' /\ nextId' > nextId /\ stored.id # ClientId
         /\ stored.timestamp = now /\ stored.timestamp # ClientTimestamp
         /\ stored.type = "SYSTEM" /\ stored.room_id = room
         /\ messageHistory'[room]
              = Append(MapGet(messageHistory, room, <<>>), stored)
         /\ ~streams'[lastOp'.conn].destroyed
         /\ \A u \in LiveMembers(rooms, room, dir, streams) :
              dir[u] \notin lastOp'.failed
                => streams'[dir[u]].received
                     = Append(streams[dir[u]].received, stored)]_vars

\* a user who is no member of the room sent a SYSTEM message to it and the
\* live stream of a member received it
C30_Witness ==
  /\ lastOp.op = "data"
  /\ lastOp.type = "SYSTEM"
  /\ ~lastOp.member
  /\ lastOp.msgs[1] \in Range(messageHistory[lastOp.room])
  /\ \E c \in Conns :
       /\ streams[c].userId \in Members(rooms, lastOp.room)
       /\ streams[c].received # <<>>
       /\ streams[c].received[Len(streams[c].received)] = lastOp.msgs[1]

\* room r holds, after this step, a SYSTEM message of user u that the step made
PersistedBy(r, u) ==
  \E i \in 1..Len(MapGet(messageHistory', r, <<>>)) :
    LET msg == messageHistory'[r][i]
    IN msg.type = "SYSTEM" /\ msg.user_id = u /\ msg.id > nextId

\* C31: every SYSTEM notification the server makes itself (the "joined"
\* message of joinRoom, the "left" message of leaveRoom and of a disconnect,
\* the presence message of updatePresence) is appended to the history of its
\* room, where a later getHistory finds it.
C31_NotificationsPersisted ==
  /\ [][(ChatOp("joinRoom") \/ ChatOp("leaveRoom"))
          => PersistedBy(lastOp'.room, lastOp'.user)]_vars
  /\ [][(\E op \in {"end", "error", "cancelled", "updatePresence"} : ChatOp(op))
          => \A r \in lastOp'.notified : PersistedBy(r, lastOp'.user)]_vars

\* C32: getHistory returns the messages of a room in the order the server
\* received them (the order they were appended to the history), also when
\* stored messages carry the same timestamp.
C32_HistoryAppendOrder ==
  [][ChatOp("getHistory") => InProcessingOrder(lastOp'.msgs)]_vars

\* the execute() call of caller c settles in this step
Settles(c) == calls[c].pc = "running" /\ calls'[c].pc # "running"

\* C33: in the chain breaker.execute(() => withRetry(() => client.call())),
\* a logical call whose attempts all fail raises the breaker's failure count
\* by exactly one, whatever the number of attempts made (no step before the
\* call settles touches the count), and a logical call that succeeds on a
\* retry sets the count to zero and leaves the breaker CLOSED.
C33_GatewayChain ==
  /\ [][failures' # failures => \E c \in Callers : Settles(c)]_vars
  /\ [][\A c \in Callers :
          (Settles(c) /\ calls'[c].pc = "thrown")
            => /\ failures' = failures + 1
               /\ Len(retry'.outcomes) \in 1..WithRetryMaxRetries
               /\ \A i \in 1..Len(retry'.outcomes) : ~retry'.outcomes[i].ok]_vars
  /\ [][\A c \in Callers :
          (Settles(c) /\ calls'[c].pc = "returned" /\ retry'.result > 1)
            => failures' = 0 /\ state' = "CLOSED"]_vars

\* a logical call succeeded on its second attempt, and the next one failed
\* on all three attempts, which left the count at one
C33_Witness ==
  /\ settled = <<"ok", "err">>
  /\ retry.pc = "thrown"
  /\ Len(retry.outcomes) = WithRetryMaxRetries
  /\ retry.invoked = WithRetryMaxRetries
  /\ failures = 1
  /\ state = "CLOSED"
  /\ calls[1].pc = "thrown" /\ calls[1].id = 2
  /\ now > 0

\* C34: the two membership indexes agree in every reachable state: user u is
\* in rooms[r] exactly when r is in userRooms[u].
C34_IndexesAgree ==
  \A r \in RoomIds, u \in UserIds :
    u \in Members(rooms, r) <=> r \in Range(MapGet(userRooms, u, <<>>))

\* a user with a bound stream joined two rooms and left one of them again
C34_Witness ==
  /\ lastOp.op = "leaveRoom"
  /\ lastOp.member
  /\ lastOp.user \notin Members(rooms, lastOp.room)
  /\ lastOp.room \notin Range(userRooms[lastOp.user])
  /\ \E r \in RoomIds :
       /\ lastOp.user \in Members(rooms, r)
       /\ r \in Range(userRooms[lastOp.user])
  /\ \E c \in Conns : streams[c].userId = lastOp.user

\* C35: the close of a connection removes only its own directory entry: when
\* a stream of user u closes while the directory maps u to another, newer
\* stream, the directory still maps u to that stream afterwards and the close
\* does not set u's presence to OFFLINE.
C35_CloseOwnEntryOnly ==
  [][\A ev \in {"end", "error", "cancelled"} :
      (/\ ChatOp(ev)
       /\ lastOp'.user \in DOMAIN userStreams
       /\ userStreams[lastOp'.user] # lastOp'.conn)
        => /\ lastOp'.user \in DOMAIN userStreams'
           /\ userStreams'[lastOp'.user] = userStreams[lastOp'.user]
           /\ MapGet(userPresence', lastOp'.user, "")
                = MapGet(userPresence, lastOp'.user, "")]_vars

\* C36: the disconnect cleanup runs at most once per connection: when a
\* terminal event fires on a stream that has emitted a terminal event before,
\* no room is sent a further "left" notification and no cleanup side effect
\* is applied again (directory, presence and every stream's received
\* messages stay as they are).
C36_CleanupOnce ==
  [][\A ev \in {"end", "error", "cancelled"} :
      (ChatOp(ev) /\ streams[lastOp'.conn].events # {})
        => /\ lastOp'.notified = {}
           /\ userStreams' = userStreams
           /\ userPresence' = userPresence
           /\ \A c \in Conns : streams'[c].received = streams[c].received]_vars

\* C37: getHistory is read-only: a call, with or without beforeTimestamp,
\* leaves the stored history of every room (its contents and their order),
\* the room registry, the presence and the connection directory unchanged.
C37_GetHistoryReadOnly ==
  [][ChatOp("getHistory")
      => /\ messageHistory' = messageHistory
         /\ rooms' = rooms /\ userRooms' = userRooms
         /\ userPresence' = userPresence
         /\ userStreams' = userStreams]_vars

\* C38: the user_id of every message a stream gets persisted or fanned out
\* is the user id the stream is bound to: no client message goes out under
\* another user's id.
C38_StoredUserIsBoundUser ==
  /\ [][(ChatOp("data") /\ lastOp'.outcome = "accepted")
          => lastOp'.msgs[1].user_id = lastOp'.user]_vars
  /\ [](\A r \in DOMAIN messageHistory : \A i \in 1..Len(messageHistory[r]) :
          messageHistory[r][i].user_id \in {s.userId : s \in Range(streams)})

\* C39: the breaker's state and its failure counter are consistent in every
\* reachable state, with several execute() calls in flight included: CLOSED
\* implies failures < failureThreshold, and OPEN or HALF_OPEN implies
\* failures >= failureThreshold.
C39_StateMatchesFailures ==
  /\ state = "CLOSED" => failures < failureThreshold
  /\ state \in {"OPEN", "HALF_OPEN"} => failures >= failureThreshold

\* two calls overlapped: both failed, the second after the breaker had opened,
\* and a trial is in flight
C39_Witness ==
  /\ state = "HALF_OPEN"
  /\ failures > failureThreshold
  /\ \E c \in Callers : calls[c].pc = "running" /\ calls[c].admittedIn = "OPEN"
  /\ \E c \in Callers : calls[c].pc = "thrown" /\ calls[c].admittedIn = "CLOSED"

\* C40: an OPEN breaker closes only through a trial: no step takes the state
\* from OPEN straight to CLOSED (a trial, admitted after now >= nextAttempt,
\* has moved it to HALF_OPEN first), and when an operation admitted while the
\* breaker was CLOSED settles while it is OPEN, the breaker stays OPEN and
\* nextAttempt stays where it is.
C40_ClosesOnlyThroughTrial ==
  /\ [][state = "OPEN" => state' # "CLOSED"]_vars
  /\ [][\A c \in Callers :
          (/\ calls[c].pc = "running"
           /\ calls[c].admittedIn = "CLOSED"
           /\ calls'[c].pc # "running"
           /\ state = "OPEN")
            => state' = "OPEN" /\ nextAttempt' = nextAttempt]_vars

====
